---- MODULE Spec2Model ----
(***************************************************************************)
(* The undo/redo transaction log of IntraPaint (src/src/undo_stack.py):    *)
(* the UndoStack singleton, its _UndoAction and _UndoGroup entries, the    *)
(* non-reentrant access lock, and the threads that call into it.           *)
(*                                                                         *)
(* A callable handed to commit_action is identified by the number of the   *)
(* commit that supplied it: [fn |-> "action", id |-> n] is the action      *)
(* function of commit n and [fn |-> "undo_action", id |-> n] its undo      *)
(* function.  What a callable does when it runs is an input: it returns,   *)
(* it raises, or it calls back into the undo stack.                        *)
(*                                                                         *)
(* Optional values (Python's None) are sequences of length 0 or 1.         *)
(***************************************************************************)
EXTENDS Integers, Sequences, FiniteSets, TLC

VARIABLES
    undo_stack,          \* UndoStack._undo_stack, oldest entry first
    redo_stack,          \* UndoStack._redo_stack
    access_lock,         \* UndoStack._access_lock: "free" or the thread holding it
    open_group,          \* UndoStack._open_group: <<>> or <<group>>
    in_progress_change,  \* UndoStack._in_progress_change
    undo_in_progress,    \* UndoStack._undo_in_progress
    undo_count_changed,  \* last value emitted on the undo_count_changed signal
    redo_count_changed,  \* last value emitted on the redo_count_changed signal
    now,                 \* datetime.datetime.now().timestamp(), in ticks
    next_id,             \* number of the next commit_action call to be recorded
    pc,                  \* per thread: where the thread is inside the undo stack's code
    frame,               \* per thread: locals of the operation the thread is in, and the
                         \* history as it was when that operation was called
    exc,                 \* per thread: exception pending inside a callback or context body
    ctx,                 \* per thread: tag of the combining_actions block it is inside, or "none"
    outcome,             \* per thread: how its latest call ended, until it makes the next call
    ran,                 \* callables invoked by the latest top-level operation, in order
    \* the image generation bridge (image_generator.py, generated_image_selector.py)
    generated_images,    \* ImageGenerator._generated_images
    tasks,               \* the _AsyncInpaintTask objects created so far, with their closures
    events,              \* signals queued for delivery on the UI thread, oldest first
    timers,              \* pending QTimer.singleShot calls, oldest first
    image_selector_visible,  \* MainWindow: the GeneratedImageSelector is shown
    options,             \* GeneratedImageSelector._options
    app_state,           \* AppStateTracker.app_state()
    errors_shown,        \* errors shown by show_error_dialog, as (task, exception type)
    cancel_generation,   \* tasks that were running when cancel_generation was emitted
    generation_area_content,  \* ImageStack: the pixels of the generation area
    mask_image,          \* ImageStack.selection_layer: the selection mask
    zoomed_in,           \* GeneratedImageSelector._zoomed_in
    zoom_index,          \* GeneratedImageSelector._zoom_index
    layers,              \* ImageStack: the layers, in the order of their creation
    active_layer,        \* ImageStack.active_layer, as a position in layers
    stack_calls,         \* the mutating calls made on the ImageStack, oldest first
    \* a tool (base_tool.py) and what a CanvasTool holds (canvas_tool.py)
    active,              \* BaseTool._active
    hooks,               \* the _on_activate / _on_deactivate invocations, oldest first
    cursor,              \* BaseTool._cursor
    saved_cursor,        \* BaseTool._saved_cursor
    tool_layer,          \* CanvasTool._layer, as a position in layers (0: None)
    drawing,             \* CanvasTool._drawing
    cached_size,         \* CanvasTool._cached_size (0: None)
    brush_size,          \* LayerCanvas.brush_size
    tablet,              \* CanvasTool._tablet_input, _tablet_pressure, _tablet_x_tilt, _tablet_y_tilt
    canvas_layer,        \* the layer the LayerCanvas is connected to (0: None)
    control_panel_enabled,  \* the tool's control panel is enabled
    hidden,              \* ImageViewer._hidden: layers the viewer does not render
    canvas_calls,        \* the calls the latest tool handler made on the canvas
    stroke_open,         \* start_stroke was called on the canvas and end_stroke not since
    lock_connections,    \* per layer, the connections of lock_changed to _layer_lock_slot
    \* what the TextTool holds (text_tool.py)
    text_layer,          \* TextTool._text_layer, as a position in layers (0: None)
    dragging,            \* TextTool._dragging
    placement_outline,   \* TextTool._placement_outline: visible, enabled
    text_signals,        \* the connections made by TextTool._connect_signals
    \* the generation area, as the viewer and the image panel set it
    document_size,       \* ImageStack.size: width, height
    generation_area,     \* ImageStack.generation_area: x, y, width, height
    edit_size,           \* the configured AppConfig.EDIT_SIZE: width, height
    area_assigned,       \* the rectangle the latest handler assigned to generation_area
    returned,            \* what the latest viewer or panel handler returned (<<>>: None)
    \* the change callbacks of a Config (config.py)
    entries,             \* the value of each key
    config_connected,    \* Config._connected: for each key, its items, oldest first
    latest_connected,    \* for each key and object, the callback of its latest connect()
    set_calls,           \* the set() calls in progress, the innermost last
    config_lock,         \* Config._lock: "free" or the thread holding it
    config_at,           \* where each thread is in the Config's methods
    save_timer,          \* Config._save_timer.isActive()
    json_file            \* what the file at Config._json_path holds, if written

\* the undo stack and its callers
undo_stack_vars ==
    <<undo_stack, redo_stack, access_lock, open_group, in_progress_change,
      undo_in_progress, undo_count_changed, redo_count_changed, now, next_id,
      pc, frame, exc, ctx, outcome, ran>>

\* the image generation bridge, its window and its document
generation_vars ==
    <<generated_images, tasks, events, timers, image_selector_visible, options,
      app_state, errors_shown, cancel_generation, generation_area_content, mask_image>>

\* the result selector's view
selector_vars == <<zoomed_in, zoom_index>>

\* the document's layers
layer_vars == <<layers, active_layer, stack_calls>>

\* a tool's activation state and cursor
base_tool_vars == <<active, hooks, cursor, saved_cursor>>

\* a CanvasTool, its canvas, its control panel and the viewer
canvas_tool_vars ==
    <<tool_layer, drawing, cached_size, brush_size, tablet, canvas_layer,
      control_panel_enabled, hidden, canvas_calls, stroke_open, lock_connections>>

\* a TextTool, its placement outline and its signal connections
text_tool_vars == <<text_layer, dragging, placement_outline, text_signals>>

\* the generation area, its document's size and the configured edit size
viewer_vars == <<document_size, generation_area, edit_size, area_assigned, returned>>

\* a Config's lock, the place of each thread in its methods, its save timer
\* and the JSON file
config_lock_vars == <<config_lock, config_at, save_timer, json_file>>

\* a Config's values and connections
config_vars ==
    <<entries, config_connected, latest_connected, set_calls, config_lock_vars>>

\* what neither the undo stack nor image generation touch
outside_document ==
    <<base_tool_vars, canvas_tool_vars, text_tool_vars, viewer_vars, config_vars>>

\* what a CanvasTool and its layers leave alone
outside_canvas ==
    <<undo_stack_vars, generation_vars, selector_vars, text_tool_vars, viewer_vars,
      config_vars>>

\* what the undo stack's operations leave alone
outside_undo_stack == <<generation_vars, selector_vars, layer_vars, outside_document>>

\* what the steps of a generation task leave alone
outside_generation == <<undo_stack_vars, selector_vars, layer_vars, outside_document>>

vars == <<undo_stack, redo_stack, access_lock, open_group, in_progress_change,
          undo_in_progress, undo_count_changed, redo_count_changed, now, next_id,
          pc, frame, exc, ctx, outcome, ran,
          generated_images, tasks, events, timers, image_selector_visible, options,
          app_state, errors_shown, cancel_generation, generation_area_content, mask_image,
          zoomed_in, zoom_index, layers, active_layer, stack_calls,
          active, hooks, cursor, saved_cursor,
          tool_layer, drawing, cached_size, brush_size, tablet, canvas_layer,
          control_panel_enabled, hidden, canvas_calls, stroke_open, lock_connections,
          text_layer, dragging, placement_outline, text_signals,
          document_size, generation_area, edit_size, area_assigned, returned,
          entries, config_connected, latest_connected, set_calls,
          config_lock, config_at, save_timer, json_file>>

----------------------------------------------------------------------------
(* Bounds of the model and program constants *)

MAX_UNDO == 50

\* AppConfig.UNDO_MERGE_INTERVAL, in clock ticks
MergeInterval == 1

\* the clock stops advancing at MaxTime
MaxTime == 1

\* at most MaxCommits commit_action calls are recorded
MaxCommits == 2

\* the same, for a chain of commits that merge
MaxChain == 3

\* commits beyond MAX_UNDO made by the bounded-history specification
ExtraCommits == 2

Threads == {"ui", "worker"}

\* type tags of commits, and the tag of combining_actions blocks
Tags == {"a", "b"}

GroupTags == {"g"}

Range(s) == {s[i] : i \in 1..Len(s)}

----------------------------------------------------------------------------
(* _UndoAction and _UndoGroup *)

\* _UndoAction.__init__: one action, stamped with the time of its construction
UndoAction(id, action_type, ts) ==
    [group |-> FALSE, type |-> <<action_type>>, timestamp |-> ts,
     undo_actions |-> <<id>>, redo_actions |-> <<id>>]

\* _UndoGroup.__init__: an empty group
UndoGroup(action_type, ts) ==
    [group |-> TRUE, type |-> <<action_type>>, timestamp |-> ts,
     undo_actions |-> <<>>, redo_actions |-> <<>>]

\* add_to_group appending the undo function instead of inserting it first
add_to_group_appending(g, undo_id, redo_id, action_type, ts) ==
    [g EXCEPT !.undo_actions = Append(@, undo_id),
              !.redo_actions = Append(@, redo_id),
              !.timestamp = ts,
              !.type = IF action_type \in Range(@) THEN @ ELSE Append(@, action_type)]

\* _UndoGroup.add_to_group: the undo function goes first, the redo function last;
\* the type string "x,y" is the sequence <<x, y>>, 'in' is membership of a tag
add_to_group(g, undo_id, redo_id, action_type, ts) ==
    [g EXCEPT !.undo_actions = <<undo_id>> \o @,
              !.redo_actions = Append(@, redo_id),
              !.timestamp = ts,
              !.type = IF action_type \in Range(@) THEN @ ELSE Append(@, action_type)]

\* a count that is never 0
count_plus_one(g) == Len(g.undo_actions) + 1

\* _UndoGroup.count
count(g) == Len(g.undo_actions)

\* the callables _UndoAction.undo / _UndoGroup.undo invoke, in order
undo_calls(item) ==
    [i \in 1..Len(item.undo_actions) |-> [fn |-> "undo_action", id |-> item.undo_actions[i]]]

\* the callables _UndoAction.redo / _UndoGroup.redo invoke, in order
redo_calls(item) ==
    [i \in 1..Len(item.redo_actions) |-> [fn |-> "action", id |-> item.redo_actions[i]]]

----------------------------------------------------------------------------
(* UndoStack helpers *)

\* UndoStack.undo_count
undo_count == Len(undo_stack)

\* UndoStack.redo_count
redo_count == Len(redo_stack)

\* Lock.locked()
locked == access_lock # "free"

\* a trim that pops the newest entries instead of the oldest
drop_newest(stack) ==
    IF Len(stack) > MAX_UNDO THEN SubSeq(stack, 1, MAX_UNDO) ELSE stack

\* _add_to_stack's 'while len(stack) > MAX_UNDO: stack.pop(0)'
drop_oldest(stack) ==
    IF Len(stack) > MAX_UNDO THEN SubSeq(stack, Len(stack) - MAX_UNDO + 1, Len(stack))
    ELSE stack

\* _add_to_stack's 'stack == self._undo_stack': list equality, not identity.
\* Entries carry the numbers of their commits, so two lists are equal exactly
\* when they hold the same objects.
is_undo_stack(stack, undo_now) == stack = undo_now

\* _add_to_stack: the list after the append, the value emitted (<<>>: none),
\* and the signal the value is emitted on.  'undo_now' is self._undo_stack at
\* the time of the call.
add_to_stack(stack_item, stack, undo_now) ==
    LET appended == Append(stack, stack_item) IN
    [stack    |-> drop_oldest(appended),
     to_undo  |-> is_undo_stack(stack, undo_now),
     emit     |-> IF Len(appended) > MAX_UNDO
                  THEN (IF Len(appended) # MAX_UNDO + 1 THEN <<MAX_UNDO>> ELSE <<>>)
                  ELSE <<Len(appended)>>]

\* the value last emitted on a signal after an optional emission
emitted(old, emit) == IF emit = <<>> THEN old ELSE emit[1]

\* a merge test that also merges at exactly the interval
merges_inclusive(prev_stack, ts) ==
    /\ Len(prev_stack) # 0
    /\ ts - prev_stack[Len(prev_stack)].timestamp <= MergeInterval

\* commit_action's merge test, lines 138-140
merges(prev_stack, ts) ==
    /\ Len(prev_stack) # 0
    /\ ts - prev_stack[Len(prev_stack)].timestamp < MergeInterval

\* a commit that is always pushed as an entry of its own
record_on_stack_pushing(stack, id, action_type, ts) ==
    add_to_stack(UndoAction(id, action_type, ts), stack, stack)

\* commit_action lines 136-150: the undo list after recording commit 'id'
\* with no group open
record_on_stack(stack, id, action_type, ts) ==
    IF merges(stack, ts)
    THEN LET prev_action == stack[Len(stack)] IN
         IF prev_action.group
         THEN [stack |-> [stack EXCEPT ![Len(stack)] =
                            add_to_group(prev_action, id, id, action_type, ts)],
               to_undo |-> TRUE, emit |-> <<>>]
         ELSE LET rest == SubSeq(stack, 1, Len(stack) - 1)
                  new_group ==
                      add_to_group(
                          add_to_group(UndoGroup(prev_action.type[1], ts),
                                       prev_action.undo_actions[1],
                                       prev_action.redo_actions[1],
                                       prev_action.type[1], ts),
                          id, id, action_type, ts)
              IN add_to_stack(new_group, rest, rest)
    ELSE add_to_stack(UndoAction(id, action_type, ts), stack, stack)

\* the history a top-level call sees when it starts
snapshot ==
    [undo_stack |-> undo_stack, redo_stack |-> redo_stack, open_group |-> open_group,
     in_progress_change |-> in_progress_change]

NoFrame ==
    [op |-> "none", id |-> 0, tag |-> "none", skip |-> FALSE, todo |-> <<>>, item |-> <<>>,
     pre |-> <<>>]

NoOutcome == [op |-> "none", result |-> "none"]

\* places from which a thread can call into the undo stack: top level (or the
\* body of a combining_actions block), a callable being run by commit_action,
\* undo or redo, and the body of a last_action block
CallSites == {"idle", "callback", "last_action_body"}

\* the thread is running code that executes while it holds the lock itself
InsideLock(t) == pc[t] \in {"callback", "last_action_body"}

\* a call starts: at top level it is the thread's latest top-level call, inside
\* a callable or a last_action body it is part of the enclosing operation
call(t, result_now) ==
    /\ pc[t] \in CallSites /\ exc[t] = "none"
    /\ ran' = IF pc[t] = "idle" THEN <<>> ELSE ran
    /\ outcome' = [outcome EXCEPT ![t] = result_now]

----------------------------------------------------------------------------
(* The image generation bridge: values *)

\* at most MaxTasks generation requests are made
MaxTasks == 1

\* at most MaxRequests requests are made where a request may follow another
MaxRequests == 2

\* Cache.BATCH_SIZE * Cache.BATCH_COUNT: the images a task is expected to
\* produce, with indices 0 .. BatchSize - 1
BatchSize == 2

\* a task's backend passes back at most MaxCached images
MaxCached == 2

\* the user edits the document, and the selection, at most MaxEdits times each
MaxEdits == 1

Indices == 0..(BatchSize - 1)

\* exception types a generation backend can raise, and those named by the
\* except clause of _do_inpaint (image_generator.py line 150)
ExceptionTypes == {"RuntimeError", "KeyError"}

CaughtTypes == {"IOError", "ValueError", "RuntimeError"}

\* AppConfig.EDIT_MODE
EditModes == {"Inpaint", "Image to Image"}

\* An image is the pixels it holds: where they come from, and whether they
\* were resampled to the generation size.
\* QImage(): the null image
NullImage == [kind |-> "null", task |-> 0, index |-> 0, scaled |-> FALSE]

\* GeneratedImageSelector._loading_image, the placeholder of an expected image
LoadingImage == [kind |-> "loading", task |-> 0, index |-> 0, scaled |-> FALSE]

\* the image with index i produced by the backend of task k
Sample(k, i) == [kind |-> "sample", task |-> k, index |-> i, scaled |-> FALSE]

\* the generation area of the document after n edits
Content(n) == [kind |-> "document", task |-> 0, index |-> n, scaled |-> FALSE]

\* the selection mask after n edits
Mask(n) == [kind |-> "mask", task |-> 0, index |-> n, scaled |-> FALSE]

\* pil_image_scaling(image, generation_size): the same pixels, resampled
pil_image_scaling(image) == [image EXCEPT !.scaled = TRUE]

\* composite_base, image_generator.py lines 128-134: the request's image with
\* the blurred mask cut out of it
CompositeBase(image, mask) == [image |-> image, mask |-> mask]

\* GeneratedImageSelector.reset, lines 254-313: the original content, then a
\* placeholder for each expected image
reset(original_image) ==
    <<original_image>> \o [i \in 1..BatchSize |-> LoadingImage]

\* GeneratedImageSelector.add_image_option, lines 334-352: an index outside
\* the options raises IndexError and changes nothing
add_image_option(opts, image, idx) ==
    IF ~(0 <= idx /\ idx < Len(opts)) THEN opts
    ELSE IF idx + 1 = Len(opts) THEN Append(opts, image)
    ELSE [opts EXCEPT ![idx + 2] = image]

\* list.insert(index, x): an index beyond the end appends
insert(list, index, x) ==
    LET at == IF index > Len(list) THEN Len(list) ELSE index IN
    SubSeq(list, 1, at) \o <<x>> \o SubSeq(list, at + 1, Len(list))

\* list.pop(index)
pop(list, index) ==
    SubSeq(list, 1, index) \o SubSeq(list, index + 2, Len(list))

\* the states of a layer that _insert_option_into_layer tells apart: an
\* image layer that is visible and not locked, a locked one, one below a
\* locked group, a hidden one, and a layer that is no ImageLayer
LayerStates == {"editable", "locked", "parent_locked", "hidden", "not_image"}

Layer(state, content) == [state |-> state, content |-> content]

\* new layers are created while the document has fewer than MaxLayers layers
MaxLayers == 2

\* at most MaxCalls mutating calls are made on the ImageStack
MaxCalls == 2

\* the pixels of the generation area: those of the topmost layer that is not
\* hidden
RECURSIVE composite(_)
composite(ls) ==
    IF ls = <<>> THEN NullImage
    ELSE IF ls[Len(ls)].state # "hidden" THEN ls[Len(ls)].content
    ELSE composite(SubSeq(ls, 1, Len(ls) - 1))

\* ImageStack.create_layer: the new image layer is put on top and becomes the
\* active layer
create_layer(st) ==
    [st EXCEPT !.layers = Append(@, Layer("editable", NullImage)),
               !.active_layer = Len(st.layers) + 1,
               !.calls = Append(@, [call |-> "create_layer", layer |-> Len(st.layers) + 1,
                                    result |-> "ok"])]

\* ImageStack.set_generation_area_content: the image is written into the
\* layer; a locked or parent-locked layer, and a layer that holds no pixels,
\* is left as it is and the call fails
set_generation_area_content(st, image, layer) ==
    IF st.layers[layer].state \in {"locked", "parent_locked", "not_image"}
    THEN [st EXCEPT !.calls = Append(@, [call |-> "set_generation_area_content",
                                         layer |-> layer, result |-> "LockedError"]),
                    !.error = "LockedError"]
    ELSE [st EXCEPT !.layers[layer].content = image,
                    !.calls = Append(@, [call |-> "set_generation_area_content",
                                         layer |-> layer, result |-> "ok"])]

----------------------------------------------------------------------------
(* Tools: values *)

\* at most MaxHooks activation hooks are recorded
MaxHooks == 4

\* a layer is assigned to the tool while its lock_changed signal has fewer
\* than MaxConnections connections to the tool's slot
MaxConnections == 2

\* brush sizes are 1..MaxBrush
MaxBrush == 2

\* the cached tablet data of a CanvasTool, "none" for None
Tablet(input, pressure, x_tilt, y_tilt) ==
    [input |-> input, pressure |-> pressure, x_tilt |-> x_tilt, y_tilt |-> y_tilt]

\* an invocation of _on_activate(restoring_after_delegation)
on_activate_call(restoring_after_delegation) ==
    [hook |-> "_on_activate", restoring_after_delegation |-> restoring_after_delegation]

\* an invocation of _on_deactivate()
on_deactivate_call == [hook |-> "_on_deactivate", restoring_after_delegation |-> FALSE]

\* TextTool: no layer's signals and no control-panel or placement-outline
\* signal is connected to the tool's slots.  Each layer signal holds the
\* layers it is connected from, one element for each connection; each panel
\* and outline signal holds the number of its connections; 'failed' is set by
\* a connect of a connected slot and by a disconnect of a slot that is not
\* connected
NoSignals ==
    [lock_changed |-> <<>>, transform_changed |-> <<>>, size_changed |-> <<>>,
     text_rect_changed |-> 0, offset_changed |-> 0, placement_changed |-> 0,
     failed |-> FALSE]

\* CanvasTool.__init__, lines 60-63: no tablet data
NoTablet == Tablet("none", "none", "none", "none")

\* the largest width and height of a document
MaxSize == 2

\* a QRect and a QSize
Rect(x, y, width, height) == [x |-> x, y |-> y, width |-> width, height |-> height]
Size(width, height) == [width |-> width, height |-> height]

\* the keys of the Config, the objects that connect to them and their callbacks
Keys == {"edit_size", "edit_mode"}
Objects == {"panel", "viewer"}
Callbacks == {"on_change", "on_change_again"}

\* the values a key is set to
Values == {0, 1}

\* the set() calls in progress at a time, one inside a callback of the other
MaxNested == 1

\* the same, where one key is set and only callbacks call into the Config
MaxPasses == 2

\* what an object that is not connected to a key has connected
NotConnected == "none"

\* threading.main_thread(), the thread of the Qt event loop
main_thread == "ui"

\* a thread that is in no method of the Config
Outside == [at |-> "outside"]

----------------------------------------------------------------------------
Init ==
    /\ undo_stack = <<>>
    /\ redo_stack = <<>>
    /\ access_lock = "free"
    /\ open_group = <<>>
    /\ in_progress_change = "none"
    /\ undo_in_progress = FALSE
    /\ undo_count_changed = 0
    /\ redo_count_changed = 0
    /\ now = 0
    /\ next_id = 1
    /\ pc = [t \in Threads |-> "idle"]
    /\ frame = [t \in Threads |-> NoFrame]
    /\ exc = [t \in Threads |-> "none"]
    /\ ctx = [t \in Threads |-> "none"]
    /\ outcome = [t \in Threads |-> NoOutcome]
    /\ ran = <<>>
    /\ generated_images = <<>>
    /\ tasks = <<>>
    /\ events = <<>>
    /\ timers = <<>>
    /\ image_selector_visible = FALSE
    /\ options = <<>>
    /\ app_state = "editing"
    /\ errors_shown = <<>>
    /\ cancel_generation = {}
    /\ generation_area_content = Content(0)
    /\ mask_image = Mask(0)
    /\ zoomed_in = FALSE
    /\ zoom_index = 0
    /\ layers = <<Layer("editable", Content(0))>>
    /\ active_layer = 1
    /\ stack_calls = <<>>
    /\ active = FALSE
    /\ hooks = <<>>
    /\ cursor = "tool"
    /\ saved_cursor = "none"
    /\ tool_layer = 0
    /\ drawing = FALSE
    /\ cached_size = 0
    /\ brush_size = MaxBrush
    /\ tablet = NoTablet
    /\ canvas_layer = 0
    /\ control_panel_enabled = TRUE
    /\ hidden = {}
    /\ canvas_calls = <<>>
    /\ stroke_open = FALSE
    /\ lock_connections = [l \in 1..MaxLayers |-> 0]
    /\ text_layer = 0
    /\ dragging = FALSE
    /\ placement_outline = [visible |-> FALSE, enabled |-> TRUE]
    /\ text_signals = NoSignals
    /\ document_size = [width |-> MaxSize, height |-> MaxSize]
    /\ generation_area = [x |-> 0, y |-> 0, width |-> 1, height |-> 1]
    /\ edit_size = [width |-> 1, height |-> 1]
    /\ area_assigned = <<>>
    /\ returned = <<>>
    /\ entries = [key \in Keys |-> 0]
    /\ config_connected = [key \in Keys |-> <<>>]
    /\ latest_connected = [key \in Keys |-> [object \in Objects |-> NotConnected]]
    /\ set_calls = <<>>
    /\ config_lock = "free"
    /\ config_at = [t \in Threads |-> Outside]
    /\ save_timer = FALSE
    /\ json_file = <<>>

----------------------------------------------------------------------------
(* commit_action *)

\* lines 125-127 (and 160-162, 169-171): the call is rejected with the
\* concurrent-change RuntimeError.  At top level the caller gets the error;
\* inside a callable or a last_action body the error is now pending there.
raise_concurrent(t, op) ==
    /\ call(t, [op |-> op, result |-> "concurrent"])
    /\ exc' = [exc EXCEPT ![t] = IF pc[t] = "idle" THEN "none" ELSE "concurrent"]
    /\ UNCHANGED <<pc, frame>>

\* the check passed: the thread goes on to 'with self._access_lock'
enter(t, op, action_type, skip) ==
    /\ call(t, NoOutcome)
    /\ pc' = [pc EXCEPT ![t] = "acquire"]
    /\ frame' = [frame EXCEPT ![t] = [NoFrame EXCEPT !.op = op, !.tag = action_type,
                                                     !.skip = skip, !.pre = <<snapshot>>]]
    /\ exc' = exc

\* commit_action without its locked() test
commit_action_unchecked(t, action_type, skip, max_commits) ==
    /\ UNCHANGED outside_undo_stack
    /\ next_id <= max_commits
    /\ enter(t, "commit_action", action_type, skip)
    /\ UNCHANGED <<undo_stack, redo_stack, access_lock, open_group, in_progress_change,
                   undo_in_progress, undo_count_changed, redo_count_changed, now,
                   next_id, ctx>>

\* commit_action, lines 125-128: the call and its locked() test.  No more
\* than max_commits commits are let in.
commit_action(t, action_type, skip, max_commits) ==
    /\ UNCHANGED outside_undo_stack
    /\ IF locked
       THEN raise_concurrent(t, "commit_action")
       ELSE /\ next_id <= max_commits
            /\ enter(t, "commit_action", action_type, skip)
    /\ UNCHANGED <<undo_stack, redo_stack, access_lock, open_group, in_progress_change,
                   undo_in_progress, undo_count_changed, redo_count_changed, now,
                   next_id, ctx>>

\* commit_action that leaves the redo list alone
keep_redo ==
    UNCHANGED <<redo_stack, redo_count_changed>>

\* commit_action, lines 151-153
clear_redo ==
    /\ redo_stack' = <<>>
    /\ redo_count_changed' = IF Len(redo_stack) > 0 THEN 0 ELSE redo_count_changed

\* an operation is over: its locals are gone
return(t, op, result) ==
    /\ pc' = [pc EXCEPT ![t] = "idle"]
    /\ frame' = [frame EXCEPT ![t] = NoFrame]
    /\ outcome' = [outcome EXCEPT ![t] = [op |-> op, result |-> result]]

\* lines 134-155, reached when action() has returned or was skipped: record
\* commit 'id', clear the redo list, reset the marker, leave the with block
commit_record(t, id) ==
    /\ IF open_group # <<>>
       THEN /\ open_group' = <<add_to_group(open_group[1], id, id, frame[t].tag, now)>>
            /\ UNCHANGED <<undo_stack, undo_count_changed>>
       ELSE LET r == record_on_stack(undo_stack, id, frame[t].tag, now) IN
            /\ undo_stack' = r.stack
            /\ undo_count_changed' = emitted(undo_count_changed, r.emit)
            /\ UNCHANGED open_group
    /\ clear_redo
    /\ in_progress_change' = "none"
    /\ access_lock' = "free"
    /\ next_id' = id + 1
    /\ return(t, "commit_action", "ok")

\* a thread waiting on a lock it holds itself never gets it
self_deadlock(t) ==
    /\ pc' = [pc EXCEPT ![t] = "deadlocked"]
    /\ UNCHANGED <<undo_stack, redo_stack, access_lock, open_group, in_progress_change,
                   undo_in_progress, undo_count_changed, redo_count_changed, now, next_id,
                   frame, exc, ctx, outcome, ran>>

\* lines 128-133: the lock is taken, the marker set and action() called; with
\* skip_initial_call the whole of lines 128-155 runs
commit_action_locked(t) ==
    /\ UNCHANGED outside_undo_stack
    /\ pc[t] = "acquire" /\ frame[t].op = "commit_action"
    /\ access_lock \in {"free", t}
    /\ IF access_lock = t
       THEN self_deadlock(t)
       ELSE IF frame[t].skip
       THEN /\ commit_record(t, next_id)
            /\ UNCHANGED <<undo_in_progress, now, exc, ctx, ran>>
       ELSE /\ access_lock' = t
            /\ in_progress_change' = frame[t].tag
            /\ pc' = [pc EXCEPT ![t] = "callback"]
            /\ frame' = [frame EXCEPT ![t].id = next_id,
                                      ![t].todo = <<[fn |-> "action", id |-> next_id]>>]
            /\ ran' = <<[fn |-> "action", id |-> next_id]>>
            /\ UNCHANGED <<undo_stack, redo_stack, open_group, undo_in_progress,
                           undo_count_changed, redo_count_changed, now, next_id,
                           exc, ctx, outcome>>

\* line 133 returns: action() has run to its end
commit_action_returns(t) ==
    /\ UNCHANGED outside_undo_stack
    /\ pc[t] = "callback" /\ frame[t].op = "commit_action" /\ exc[t] = "none"
    /\ commit_record(t, frame[t].id)
    /\ UNCHANGED <<undo_in_progress, now, exc, ctx, ran>>

----------------------------------------------------------------------------
(* callables and context bodies that fail *)

\* the callable being run, or the body of a last_action block, raises
callback_raises(t) ==
    /\ UNCHANGED outside_undo_stack
    /\ InsideLock(t) /\ exc[t] = "none"
    /\ exc' = [exc EXCEPT ![t] = "callback_error"]
    /\ UNCHANGED <<undo_stack, redo_stack, access_lock, open_group, in_progress_change,
                   undo_in_progress, undo_count_changed, redo_count_changed, now, next_id,
                   pc, frame, ctx, outcome, ran>>

\* an exception that leaves the operation without releasing the lock
propagate_holding_lock(t) ==
    /\ UNCHANGED outside_undo_stack
    /\ InsideLock(t) /\ exc[t] # "none"
    /\ return(t, frame[t].op, exc[t])
    /\ exc' = [exc EXCEPT ![t] = "none"]
    /\ UNCHANGED <<undo_stack, redo_stack, access_lock, open_group, in_progress_change,
                   undo_in_progress, undo_count_changed, redo_count_changed, now, next_id,
                   ctx, ran>>

\* the pending exception leaves the 'with self._access_lock' block of the
\* enclosing commit_action, undo, redo or last_action: the lock is released
\* and nothing after the failing line runs
propagate(t) ==
    /\ UNCHANGED outside_undo_stack
    /\ InsideLock(t) /\ exc[t] # "none"
    /\ access_lock' = "free"
    /\ return(t, frame[t].op, exc[t])
    /\ exc' = [exc EXCEPT ![t] = "none"]
    /\ UNCHANGED <<undo_stack, redo_stack, open_group, in_progress_change,
                   undo_in_progress, undo_count_changed, redo_count_changed, now, next_id,
                   ctx, ran>>

----------------------------------------------------------------------------
(* undo and redo *)

\* the lock is taken and the popped entry's first callable starts
start_callbacks(t, op, item, calls) ==
    /\ access_lock' = t
    /\ pc' = [pc EXCEPT ![t] = "callback"]
    /\ frame' = [frame EXCEPT ![t] = [NoFrame EXCEPT !.op = op, !.item = <<item>>,
                                                     !.todo = calls, !.pre = <<snapshot>>]]
    /\ ran' = <<calls[1]>>
    /\ outcome' = [outcome EXCEPT ![t] = NoOutcome]

\* undo, lines 190-197: take the lock (no locked() test), raise the flag,
\* return on an empty list, else pop the top entry and start its undo()
undo(t) ==
    /\ UNCHANGED outside_undo_stack
    /\ pc[t] \in CallSites /\ exc[t] = "none"
    /\ access_lock \in {"free", t}
    /\ IF access_lock = t
       THEN self_deadlock(t)
       ELSE /\ undo_in_progress' = TRUE
            /\ IF Len(undo_stack) = 0
               THEN /\ call(t, [op |-> "undo", result |-> "ok"])
                    /\ UNCHANGED <<undo_stack, access_lock, pc, frame>>
               ELSE /\ undo_stack' = SubSeq(undo_stack, 1, Len(undo_stack) - 1)
                    /\ start_callbacks(t, "undo", undo_stack[Len(undo_stack)],
                                       undo_calls(undo_stack[Len(undo_stack)]))
            /\ UNCHANGED <<redo_stack, open_group, in_progress_change, undo_count_changed,
                           redo_count_changed, now, next_id, exc, ctx>>

\* the callable that was running returned and the entry has more: the next runs
next_callback(t) ==
    /\ frame' = [frame EXCEPT ![t].todo = Tail(@)]
    /\ ran' = Append(ran, frame[t].todo[2])
    /\ UNCHANGED <<undo_stack, redo_stack, access_lock, open_group, in_progress_change,
                   undo_in_progress, undo_count_changed, redo_count_changed, now, next_id,
                   pc, exc, ctx, outcome>>

\* undo, lines 197-200: a callable of the entry's undo() returns; after the
\* last one the new undo count is emitted, the entry goes on the redo list,
\* the flag is lowered and the lock released
undo_returns(t) ==
    /\ UNCHANGED outside_undo_stack
    /\ pc[t] = "callback" /\ frame[t].op = "undo" /\ exc[t] = "none"
    /\ IF Len(frame[t].todo) > 1
       THEN next_callback(t)
       ELSE LET r == add_to_stack(frame[t].item[1], redo_stack, undo_stack) IN
            /\ redo_stack' = r.stack
            /\ undo_count_changed' =
                   IF r.to_undo THEN emitted(Len(undo_stack), r.emit) ELSE Len(undo_stack)
            /\ redo_count_changed' =
                   IF r.to_undo THEN redo_count_changed ELSE emitted(redo_count_changed, r.emit)
            /\ undo_in_progress' = FALSE
            /\ access_lock' = "free"
            /\ return(t, "undo", "ok")
            /\ UNCHANGED <<undo_stack, open_group, in_progress_change, now, next_id,
                           exc, ctx, ran>>

\* redo, lines 204-210: take the lock, return on an empty list, else pop the
\* top entry of the redo list and start its redo()
redo(t) ==
    /\ UNCHANGED outside_undo_stack
    /\ pc[t] \in CallSites /\ exc[t] = "none"
    /\ access_lock \in {"free", t}
    /\ IF access_lock = t
       THEN self_deadlock(t)
       ELSE /\ IF Len(redo_stack) = 0
               THEN /\ call(t, [op |-> "redo", result |-> "ok"])
                    /\ UNCHANGED <<redo_stack, access_lock, pc, frame>>
               ELSE /\ redo_stack' = SubSeq(redo_stack, 1, Len(redo_stack) - 1)
                    /\ start_callbacks(t, "redo", redo_stack[Len(redo_stack)],
                                       redo_calls(redo_stack[Len(redo_stack)]))
            /\ UNCHANGED <<undo_stack, open_group, in_progress_change, undo_in_progress,
                           undo_count_changed, redo_count_changed, now, next_id, exc, ctx>>

\* redo, lines 210-212: a callable of the entry's redo() returns; after the
\* last one the new redo count is emitted and the entry goes on the undo list
redo_returns(t) ==
    /\ UNCHANGED outside_undo_stack
    /\ pc[t] = "callback" /\ frame[t].op = "redo" /\ exc[t] = "none"
    /\ IF Len(frame[t].todo) > 1
       THEN next_callback(t)
       ELSE LET r == add_to_stack(frame[t].item[1], undo_stack, undo_stack) IN
            /\ undo_stack' = r.stack
            /\ undo_count_changed' = emitted(undo_count_changed, r.emit)
            /\ redo_count_changed' = Len(redo_stack)
            /\ access_lock' = "free"
            /\ return(t, "redo", "ok")
            /\ UNCHANGED <<redo_stack, open_group, in_progress_change, undo_in_progress,
                           now, next_id, exc, ctx, ran>>

\* clear, lines 214-225
clear(t) ==
    /\ UNCHANGED outside_undo_stack
    /\ pc[t] \in CallSites /\ exc[t] = "none"
    /\ access_lock \in {"free", t}
    /\ IF access_lock = t
       THEN self_deadlock(t)
       ELSE /\ IF open_group # <<>>
               THEN /\ call(t, [op |-> "clear", result |-> "assertion"])
                    /\ UNCHANGED <<undo_stack, redo_stack, undo_count_changed, redo_count_changed>>
               ELSE /\ call(t, [op |-> "clear", result |-> "ok"])
                    /\ undo_stack' = <<>>
                    /\ redo_stack' = <<>>
                    /\ undo_count_changed' = IF undo_count # 0 THEN 0 ELSE undo_count_changed
                    /\ redo_count_changed' = IF redo_count # 0 THEN 0 ELSE redo_count_changed
            /\ UNCHANGED <<access_lock, open_group, in_progress_change, undo_in_progress,
                           now, next_id, pc, frame, exc, ctx>>

----------------------------------------------------------------------------
(* last_action *)

\* last_action, lines 160-163: the call and its locked() test.  Its
\* action_type argument appears in the error message only.
last_action(t) ==
    /\ UNCHANGED outside_undo_stack
    /\ IF locked
       THEN raise_concurrent(t, "last_action")
       ELSE enter(t, "last_action", "none", FALSE)
    /\ UNCHANGED <<undo_stack, redo_stack, access_lock, open_group, in_progress_change,
                   undo_in_progress, undo_count_changed, redo_count_changed, now, next_id, ctx>>

\* last_action, lines 163-164: the lock is taken and the top entry yielded
last_action_locked(t) ==
    /\ UNCHANGED outside_undo_stack
    /\ pc[t] = "acquire" /\ frame[t].op = "last_action"
    /\ access_lock \in {"free", t}
    /\ IF access_lock = t
       THEN self_deadlock(t)
       ELSE /\ access_lock' = t
            /\ pc' = [pc EXCEPT ![t] = "last_action_body"]
            /\ UNCHANGED <<undo_stack, redo_stack, open_group, in_progress_change,
                           undo_in_progress, undo_count_changed, redo_count_changed, now,
                           next_id, frame, exc, ctx, outcome, ran>>

\* the body of the last_action block ends normally: the with block is left
last_action_exit(t) ==
    /\ UNCHANGED outside_undo_stack
    /\ pc[t] = "last_action_body" /\ exc[t] = "none"
    /\ access_lock' = "free"
    /\ return(t, "last_action", "ok")
    /\ UNCHANGED <<undo_stack, redo_stack, open_group, in_progress_change,
                   undo_in_progress, undo_count_changed, redo_count_changed, now, next_id,
                   exc, ctx, ran>>

----------------------------------------------------------------------------
(* combining_actions *)

\* combining_actions, lines 169-172: the call and its locked() test
combining_actions(t, action_type) ==
    /\ UNCHANGED outside_undo_stack
    /\ IF locked
       THEN raise_concurrent(t, "combining_actions")
       ELSE enter(t, "combining_actions", action_type, FALSE)
    /\ UNCHANGED <<undo_stack, redo_stack, access_lock, open_group, in_progress_change,
                   undo_in_progress, undo_count_changed, redo_count_changed, now, next_id, ctx>>

\* combining_actions, lines 172-178: under the lock, refuse when a group is
\* open, else open an empty group; the lock is released before the body runs
combining_actions_locked(t) ==
    /\ UNCHANGED outside_undo_stack
    /\ pc[t] = "acquire" /\ frame[t].op = "combining_actions"
    /\ access_lock \in {"free", t}
    /\ IF access_lock = t
       THEN self_deadlock(t)
       ELSE /\ IF open_group # <<>>
               THEN /\ return(t, "combining_actions", "group_open")
                    /\ UNCHANGED <<open_group, ctx>>
               ELSE /\ open_group' = <<UndoGroup(frame[t].tag, now)>>
                    /\ ctx' = [ctx EXCEPT ![t] = frame[t].tag]
                    /\ return(t, "combining_actions", "opened")
            /\ UNCHANGED <<undo_stack, redo_stack, access_lock, in_progress_change,
                           undo_in_progress, undo_count_changed, redo_count_changed, now,
                           next_id, exc, ran>>

\* combining_actions, lines 178-182: the body ended normally and the
\* generator resumes after its yield with the second locked() test; a
\* RuntimeError here ends the generator with the group still open
combining_actions_exit(t) ==
    /\ UNCHANGED outside_undo_stack
    /\ pc[t] = "idle" /\ ctx[t] # "none"
    /\ IF locked
       THEN /\ raise_concurrent(t, "combining_actions_exit")
            /\ ctx' = [ctx EXCEPT ![t] = "none"]
       ELSE /\ enter(t, "combining_actions_exit", ctx[t], FALSE)
            /\ UNCHANGED ctx
    /\ UNCHANGED <<undo_stack, redo_stack, access_lock, open_group, in_progress_change,
                   undo_in_progress, undo_count_changed, redo_count_changed, now, next_id>>

\* combining_actions, lines 182-186: under the lock, push the group if it
\* holds anything and close it
combining_actions_exit_locked(t) ==
    /\ UNCHANGED outside_undo_stack
    /\ pc[t] = "acquire" /\ frame[t].op = "combining_actions_exit"
    /\ access_lock \in {"free", t}
    /\ IF access_lock = t
       THEN self_deadlock(t)
       ELSE /\ ctx' = [ctx EXCEPT ![t] = "none"]
            /\ IF open_group = <<>> \/ open_group[1].type[1] # frame[t].tag
               THEN /\ return(t, "combining_actions_exit", "assertion")
                    /\ UNCHANGED <<undo_stack, open_group, undo_count_changed>>
               ELSE /\ return(t, "combining_actions_exit", "ok")
                    /\ open_group' = <<>>
                    /\ IF count(open_group[1]) > 0
                       THEN LET r == add_to_stack(open_group[1], undo_stack, undo_stack) IN
                            /\ undo_stack' = r.stack
                            /\ undo_count_changed' = emitted(undo_count_changed, r.emit)
                       ELSE UNCHANGED <<undo_stack, undo_count_changed>>
            /\ UNCHANGED <<redo_stack, access_lock, in_progress_change, undo_in_progress,
                           redo_count_changed, now, next_id, exc, ran>>

\* the body of a combining_actions block raises: the generator has no
\* try/finally around its yield, so nothing after line 178 runs
body_raises(t) ==
    /\ UNCHANGED outside_undo_stack
    /\ pc[t] = "idle" /\ ctx[t] # "none"
    /\ ctx' = [ctx EXCEPT ![t] = "none"]
    /\ call(t, [op |-> "combining_actions_exit", result |-> "body_error"])
    /\ UNCHANGED <<undo_stack, redo_stack, access_lock, open_group, in_progress_change,
                   undo_in_progress, undo_count_changed, redo_count_changed, now, next_id,
                   pc, frame, exc>>

----------------------------------------------------------------------------
\* time passes.  The clock is read only by the last step of an operation, so
\* time that passes during an operation is time that passed before it.
tick ==
    /\ UNCHANGED outside_undo_stack
    /\ now < MaxTime
    /\ \A t \in Threads : pc[t] = "idle"
    /\ now' = now + 1
    /\ UNCHANGED <<undo_stack, redo_stack, access_lock, open_group, in_progress_change,
                   undo_in_progress, undo_count_changed, redo_count_changed, next_id,
                   pc, frame, exc, ctx, outcome, ran>>

\* everything one thread can do, with commits tagged from 'tags'
step(t, tags) ==
    \/ \E action_type \in tags, skip \in BOOLEAN :
           commit_action(t, action_type, skip, MaxCommits)
    \/ commit_action_locked(t)
    \/ commit_action_returns(t)
    \/ callback_raises(t)
    \/ propagate(t)
    \/ undo(t)
    \/ undo_returns(t)
    \/ redo(t)
    \/ redo_returns(t)
    \/ clear(t)
    \/ last_action(t)
    \/ last_action_locked(t)
    \/ last_action_exit(t)
    \/ \E action_type \in GroupTags : combining_actions(t, action_type)
    \/ combining_actions_locked(t)
    \/ combining_actions_exit(t)
    \/ combining_actions_exit_locked(t)
    \/ body_raises(t)

\* the single UI thread that owns the undo stack, making every kind of call
Next == step("ui", {"a"}) \/ tick

Spec == Init /\ [][Next]_vars

----------------------------------------------------------------------------
(* Bounded history: more than MAX_UNDO commits, none of them merging *)

\* the merge interval passes after the latest entry was stamped
wait_interval ==
    /\ UNCHANGED outside_undo_stack
    /\ \A t \in Threads : pc[t] = "idle"
    /\ merges(undo_stack, now)
    /\ now' = now + MergeInterval
    /\ UNCHANGED <<undo_stack, redo_stack, access_lock, open_group, in_progress_change,
                   undo_in_progress, undo_count_changed, redo_count_changed, next_id,
                   pc, frame, exc, ctx, outcome, ran>>

\* a commit made on top of the whole history, outside the merge interval
commit_outside_interval(t) ==
    /\ redo_stack = <<>>
    /\ ~merges(undo_stack, now)
    /\ commit_action(t, "a", FALSE, MAX_UNDO + ExtraCommits)

NextBounded ==
    \/ wait_interval
    \/ commit_outside_interval("ui")
    \/ commit_action_locked("ui")
    \/ commit_action_returns("ui")
    \/ undo("ui")
    \/ undo_returns("ui")
    \/ redo("ui")
    \/ redo_returns("ui")

SpecBounded == Init /\ [][NextBounded]_vars

(* Merging: commits with two type tags, undone and redone, as time passes *)

NextMerge ==
    \/ \E action_type \in Tags, skip \in BOOLEAN :
           commit_action("ui", action_type, skip, MaxCommits)
    \/ commit_action_locked("ui")
    \/ commit_action_returns("ui")
    \/ undo("ui")
    \/ undo_returns("ui")
    \/ redo("ui")
    \/ redo_returns("ui")
    \/ tick

SpecMerge == Init /\ [][NextMerge]_vars

(* Chains: commits with two type tags and combining_actions blocks, made  *)
(* one after the other as time passes, with nothing undone                 *)

NextChain ==
    \/ \E action_type \in Tags : commit_action("ui", action_type, TRUE, MaxChain)
    \/ commit_action_locked("ui")
    \/ \E action_type \in GroupTags : combining_actions("ui", action_type)
    \/ combining_actions_locked("ui")
    \/ combining_actions_exit("ui")
    \/ combining_actions_exit_locked("ui")
    \/ tick

SpecChain == Init /\ [][NextChain]_vars

(* Two threads committing: the UI thread and a worker *)

NextThreads ==
    \/ \E t \in Threads :
           \/ \E skip \in BOOLEAN : commit_action(t, "a", skip, MaxCommits)
           \/ commit_action_locked(t)
           \/ commit_action_returns(t)
           \/ callback_raises(t)
           \/ propagate(t)
    \/ tick

SpecThreads == Init /\ [][NextThreads]_vars

----------------------------------------------------------------------------
(* The image generation bridge: ImageGenerator, its worker tasks, the result
   selector and the window.  The UI thread runs one handler at a time, to its
   end; a worker thread runs between any two of its own steps and between any
   two handlers.  AppConfig.EDIT_MODE and the sizes are read when the request
   is made. *)

TaskIds == 1..Len(tasks)

\* the task was started and its worker function has not ended
running(k) == tasks[k].worker \notin {"done", "aborted"}

\* the number of images the backends of tasks 1..n have passed back so far
RECURSIVE passed_back(_)
passed_back(n) ==
    IF n = 0 THEN 0
    ELSE passed_back(n - 1) + tasks[n].cached
         + (IF tasks[n].worker \in {"cache_pad", "cache_pop", "cache_insert"} THEN 1 ELSE 0)

\* the arguments generate() would get if _do_inpaint read the document when
\* it runs
current_arguments(k) ==
    [image |-> IF tasks[k].inpaint_image.scaled
               THEN pil_image_scaling(generation_area_content)
               ELSE generation_area_content,
     mask  |-> IF tasks[k].inpaint_mask = <<>> THEN <<>>
               ELSE IF tasks[k].inpaint_mask[1].scaled
                    THEN <<pil_image_scaling(mask_image)>> ELSE <<mask_image>>]

\* _do_inpaint's defaults 'image=inpaint_image, mask=inpaint_mask', lines
\* 146-147: bound when the function is defined, during the request
bound_arguments(k) ==
    [image |-> tasks[k].inpaint_image, mask |-> tasks[k].inpaint_mask]

\* MainWindow.load_sample_preview: the image becomes option idx + 1 of the
\* selector
load_sample_preview(opts, image, idx) == add_image_option(opts, image, idx)

\* _finished's loop, lines 167-176: every cached image that is not null is
\* loaded, in index order, from position i on
RECURSIVE load_cached(_, _, _)
load_cached(opts, list, i) ==
    IF i > Len(list) THEN opts
    ELSE load_cached(IF list[i] = NullImage THEN opts
                     ELSE load_sample_preview(opts, list[i], i - 1),
                     list, i + 1)

\* ImageStack.qimage_generation_area_content: an image of the document's
\* pixels inside the generation area, as they are at the call
qimage_generation_area_content == generation_area_content

\* SelectionLayer.mask_image: an image of the selection as it is at the call
selection_layer_mask_image == mask_image

\* start_and_manage_image_generation, lines 109-184, on the UI thread; the
\* function tests nothing before it clears the cache and starts a task
start_and_manage_image_generation(edit_mode, sizes_differ) ==
    /\ generated_images' = <<>>
    /\ LET source_selection == qimage_generation_area_content
           inpaint_image == IF sizes_differ THEN pil_image_scaling(source_selection)
                            ELSE source_selection
           source_mask == IF edit_mode # "Inpaint" THEN <<>>
                          ELSE <<selection_layer_mask_image>>
           inpaint_mask == IF edit_mode # "Inpaint" THEN <<>>
                           ELSE IF sizes_differ THEN <<pil_image_scaling(source_mask[1])>>
                           ELSE source_mask
           composite_base == IF edit_mode # "Inpaint" THEN <<>>
                             ELSE <<CompositeBase(inpaint_image, inpaint_mask[1])>>
       IN tasks' = Append(tasks,
              [worker |-> "start", edit_mode |-> edit_mode,
               source_selection |-> source_selection, source_mask |-> source_mask,
               inpaint_image |-> inpaint_image,
               inpaint_mask |-> inpaint_mask, composite_base |-> composite_base,
               connected |-> TRUE, received |-> <<>>, index |-> 0, cached |-> 0,
               raised |-> "none"])
    /\ image_selector_visible' = TRUE
    /\ options' = reset(generation_area_content)
    /\ zoomed_in' = FALSE
    /\ zoom_index' = 0
    /\ app_state' = "loading"
    /\ UNCHANGED <<events, timers, errors_shown, cancel_generation,
                   generation_area_content, mask_image>>
    /\ UNCHANGED <<undo_stack_vars, layer_vars>>
    /\ UNCHANGED outside_document

\* the worker thread starts _do_inpaint, which calls self.generate with its
\* arguments, line 149
do_inpaint(k) ==
    /\ k \in TaskIds /\ tasks[k].worker = "start"
    /\ tasks' = [tasks EXCEPT ![k].worker = "generate",
                              ![k].received = <<bound_arguments(k)>>]
    /\ UNCHANGED <<generated_images, events, timers, image_selector_visible, options,
                   app_state, errors_shown, cancel_generation, generation_area_content,
                   mask_image>>
    /\ UNCHANGED outside_generation

\* _cache_generated_image's loop, lines 216-217, one test and one append at
\* a time; when the list is long enough the worker goes on to line 218
cache_pad(k, index) ==
    /\ IF Len(generated_images) < index
       THEN /\ generated_images' = Append(generated_images, NullImage)
            /\ tasks' = [tasks EXCEPT ![k].worker = "cache_pad", ![k].index = index]
       ELSE /\ generated_images' = generated_images
            /\ tasks' = [tasks EXCEPT ![k].worker = "cache_pop", ![k].index = index]
    /\ UNCHANGED <<events, timers, image_selector_visible, options, app_state,
                   errors_shown, cancel_generation, generation_area_content, mask_image>>
    /\ UNCHANGED outside_generation

\* the backend, on the worker thread, passes back the image with this index:
\* it calls self._cache_generated_image(image, index), line 96
generate_caches(k, index) ==
    /\ k \in TaskIds /\ tasks[k].worker = "generate"
    /\ passed_back(Len(tasks)) < MaxCached
    /\ cache_pad(k, index)

\* _cache_generated_image, lines 216-217, the next test of the loop
cache_generated_image_pad(k) ==
    /\ k \in TaskIds /\ tasks[k].worker = "cache_pad"
    /\ cache_pad(k, tasks[k].index)

\* _cache_generated_image, lines 218-219
cache_generated_image_pop(k) ==
    /\ k \in TaskIds /\ tasks[k].worker = "cache_pop"
    /\ generated_images' = IF Len(generated_images) > tasks[k].index
                           THEN pop(generated_images, tasks[k].index)
                           ELSE generated_images
    /\ tasks' = [tasks EXCEPT ![k].worker = "cache_insert"]
    /\ UNCHANGED <<events, timers, image_selector_visible, options, app_state,
                   errors_shown, cancel_generation, generation_area_content, mask_image>>
    /\ UNCHANGED outside_generation

\* _cache_generated_image, lines 220-222: the insert and the single-shot timer
cache_generated_image_insert(k) ==
    /\ k \in TaskIds /\ tasks[k].worker = "cache_insert"
    /\ generated_images' = insert(generated_images, tasks[k].index,
                                  Sample(k, tasks[k].index))
    /\ timers' = Append(timers, tasks[k].index)
    /\ tasks' = [tasks EXCEPT ![k].worker = "generate", ![k].cached = @ + 1]
    /\ UNCHANGED <<events, image_selector_visible, options, app_state, errors_shown,
                   cancel_generation, generation_area_content, mask_image>>
    /\ UNCHANGED outside_generation

\* _do_inpaint, lines 148-151: the backend raises.  The three types of the
\* except clause are turned into an error signal and the function returns;
\* any other exception leaves _do_inpaint.
generate_raises(k, err) ==
    /\ k \in TaskIds /\ tasks[k].worker = "generate"
    /\ IF err \in CaughtTypes
       THEN /\ events' = Append(events, [signal |-> "error_signal", task |-> k, err |-> err])
            /\ tasks' = [tasks EXCEPT ![k].worker = "returned", ![k].raised = err]
       ELSE /\ events' = events
            /\ tasks' = [tasks EXCEPT ![k].worker = "escaped", ![k].raised = err]
    /\ UNCHANGED <<generated_images, timers, image_selector_visible, options, app_state,
                   errors_shown, cancel_generation, generation_area_content, mask_image>>
    /\ UNCHANGED outside_generation

\* the backend returns and so does _do_inpaint
generate_returns(k) ==
    /\ k \in TaskIds /\ tasks[k].worker = "generate"
    /\ tasks' = [tasks EXCEPT ![k].worker = "returned"]
    /\ UNCHANGED <<generated_images, events, timers, image_selector_visible, options,
                   app_state, errors_shown, cancel_generation, generation_area_content,
                   mask_image>>
    /\ UNCHANGED outside_generation

\* AsyncTask: when the task's function has returned the finish signal is
\* emitted and the worker thread ends
finish_signal(k) ==
    /\ k \in TaskIds /\ tasks[k].worker = "returned"
    /\ events' = Append(events, [signal |-> "finish_signal", task |-> k, err |-> "none"])
    /\ tasks' = [tasks EXCEPT ![k].worker = "done"]
    /\ UNCHANGED <<generated_images, timers, image_selector_visible, options, app_state,
                   errors_shown, cancel_generation, generation_area_content, mask_image>>
    /\ UNCHANGED outside_generation

\* The exception that left _do_inpaint leaves the thread's run function.
\* What follows depends on the Qt binding: the thread ends and the finish
\* signal is emitted as after a return, or the exception is fatal and
\* nothing of the task is delivered any more.
unhandled_exception(k, thread_finishes) ==
    /\ k \in TaskIds /\ tasks[k].worker = "escaped"
    /\ IF thread_finishes
       THEN /\ events' = Append(events, [signal |-> "finish_signal", task |-> k,
                                         err |-> "none"])
            /\ tasks' = [tasks EXCEPT ![k].worker = "done"]
       ELSE /\ events' = events
            /\ tasks' = [tasks EXCEPT ![k].worker = "aborted"]
    /\ UNCHANGED <<generated_images, timers, image_selector_visible, options, app_state,
                   errors_shown, cancel_generation, generation_area_content, mask_image>>
    /\ UNCHANGED outside_generation

\* handle_error, lines 155-159, run on the UI thread for a queued error signal
handle_error ==
    /\ events # <<>> /\ Head(events).signal = "error_signal"
    /\ events' = Tail(events)
    /\ IF tasks[Head(events).task].connected
       THEN /\ image_selector_visible' = FALSE
            /\ errors_shown' = Append(errors_shown,
                                      [task |-> Head(events).task, err |-> Head(events).err])
       ELSE UNCHANGED <<image_selector_visible, errors_shown>>
    /\ UNCHANGED <<generated_images, tasks, timers, options, app_state, cancel_generation,
                   generation_area_content, mask_image>>
    /\ UNCHANGED outside_generation

\* _finished, lines 161-176, run on the UI thread for a queued finish signal:
\* set_is_loading(False) ends the loading state, the task's handlers are
\* disconnected and every cached image is loaded
finished ==
    /\ events # <<>> /\ Head(events).signal = "finish_signal"
    /\ events' = Tail(events)
    /\ IF tasks[Head(events).task].connected
       THEN /\ app_state' = IF app_state = "loading" THEN "editing" ELSE app_state
            /\ tasks' = [tasks EXCEPT ![Head(events).task].connected = FALSE]
            /\ options' = load_cached(options, generated_images, 1)
       ELSE UNCHANGED <<app_state, tasks, options>>
    /\ UNCHANGED <<generated_images, timers, image_selector_visible, errors_shown,
                   cancel_generation, generation_area_content, mask_image>>
    /\ UNCHANGED outside_generation

\* _load_generated_image_for_selection, lines 209-213, run on the UI thread
\* when a single-shot timer fires; a failed assertion ends it
load_generated_image_for_selection ==
    /\ timers # <<>>
    /\ timers' = Tail(timers)
    /\ options' = IF /\ Len(generated_images) > Head(timers)
                     /\ generated_images[Head(timers) + 1] # NullImage
                  THEN load_sample_preview(options, generated_images[Head(timers) + 1],
                                           Head(timers))
                  ELSE options
    /\ UNCHANGED <<generated_images, tasks, events, image_selector_visible, app_state,
                   errors_shown, cancel_generation, generation_area_content, mask_image>>
    /\ UNCHANGED outside_generation

\* GeneratedImageSelector._cancel, lines 213-216: the Cancel button
cancel ==
    /\ image_selector_visible
    /\ cancel_generation' = IF app_state = "loading"
                            THEN cancel_generation \cup {k \in TaskIds : running(k)}
                            ELSE cancel_generation
    /\ image_selector_visible' = FALSE
    /\ UNCHANGED <<generated_images, tasks, events, timers, options, app_state,
                   errors_shown, generation_area_content, mask_image>>
    /\ UNCHANGED outside_generation

\* the ImageStack as a handler finds it
stack_now ==
    [layers |-> layers, active_layer |-> active_layer, calls |-> stack_calls,
     error |-> "none"]

\* the ImageStack as a handler leaves it
stack_becomes(st) ==
    /\ layers' = st.layers
    /\ active_layer' = st.active_layer
    /\ stack_calls' = st.calls
    /\ generation_area_content' = composite(st.layers)

\* the option's image goes into a new layer and into the layer as well
insert_option_into_both(st, option_index, layer) ==
    set_generation_area_content(
        set_generation_area_content(create_layer(st), options[option_index + 1],
                                    Len(st.layers) + 1),
        options[option_index + 1], layer)

\* GeneratedImageSelector._insert_option_into_layer, lines 496-525: the
\* option's image goes into the layer, or into a new layer when the layer is
\* no image layer, is locked, is below a locked group or is hidden
insert_option_into_layer(st, option_index, layer) ==
    IF st.layers[layer].state # "editable"
    THEN set_generation_area_content(create_layer(st), options[option_index + 1],
                                     Len(st.layers) + 1)
    ELSE set_generation_area_content(st, options[option_index + 1], layer)

\* GeneratedImageSelector._select_option_and_close, lines 527-533, reached by
\* the Enter key on the zoomed-in option (lines 442-443) in any application
\* state and by a click on an option (lines 463-470) outside the loading
\* state.  _insert_option_into_layer writes the option into the document.
select_option_and_close(option_index) ==
    /\ image_selector_visible
    /\ option_index \in 0..(Len(options) - 1)
    /\ option_index = 0 \/ layers[active_layer].state = "editable" \/ Len(layers) < MaxLayers
    /\ LET st == IF option_index # 0
                 THEN insert_option_into_layer(stack_now, option_index, active_layer)
                 ELSE stack_now
       IN /\ stack_becomes(st)
          /\ IF st.error = "none"
             THEN app_state' = "editing" /\ image_selector_visible' = FALSE
             ELSE UNCHANGED <<app_state, image_selector_visible>>
    /\ UNCHANGED <<generated_images, tasks, events, timers, options, errors_shown,
                   cancel_generation, mask_image>>
    /\ UNCHANGED <<undo_stack_vars, selector_vars>>
    /\ UNCHANGED outside_document

\* the user changes the pixels inside the generation area
edit_document ==
    /\ generation_area_content.kind = "document"
    /\ generation_area_content.index < MaxEdits
    /\ layers[active_layer].state = "editable"
    /\ layers' = [layers EXCEPT ![active_layer].content =
                                    Content(generation_area_content.index + 1)]
    /\ generation_area_content' = composite(layers')
    /\ UNCHANGED <<generated_images, tasks, events, timers, image_selector_visible, options,
                   app_state, errors_shown, cancel_generation, mask_image>>
    /\ UNCHANGED <<undo_stack_vars, selector_vars, active_layer, stack_calls>>
    /\ UNCHANGED outside_document

\* the user changes the selection
edit_selection ==
    /\ mask_image.index < MaxEdits
    /\ mask_image' = Mask(mask_image.index + 1)
    /\ UNCHANGED <<generated_images, tasks, events, timers, image_selector_visible, options,
                   app_state, errors_shown, cancel_generation, generation_area_content>>
    /\ UNCHANGED outside_generation

\* a step of the worker thread of task k
worker(k) ==
    \/ do_inpaint(k)
    \/ \E index \in Indices : generate_caches(k, index)
    \/ cache_generated_image_pad(k)
    \/ cache_generated_image_pop(k)
    \/ cache_generated_image_insert(k)
    \/ \E err \in ExceptionTypes : generate_raises(k, err)
    \/ generate_returns(k)
    \/ finish_signal(k)
    \/ \E thread_finishes \in BOOLEAN : unhandled_exception(k, thread_finishes)

\* the menu action that makes the request: it is enabled in
\* APP_STATE_EDITING only (base_controller.py line 568)
generate_menu_action(edit_mode, sizes_differ) ==
    /\ app_state = "editing"
    /\ Len(tasks) < MaxTasks
    /\ start_and_manage_image_generation(edit_mode, sizes_differ)

NextGeneration ==
    \/ \E edit_mode \in EditModes, sizes_differ \in BOOLEAN :
           generate_menu_action(edit_mode, sizes_differ)
    \/ \E k \in 1..MaxTasks : worker(k)
    \/ handle_error
    \/ finished
    \/ load_generated_image_for_selection
    \/ cancel
    \/ \E option_index \in 0..BatchSize : select_option_and_close(option_index)
    \/ edit_document
    \/ edit_selection

SpecGeneration == Init /\ [][NextGeneration]_vars

\* The same bridge with room for a second request; the backends succeed and
\* the document is left alone between the requests.
generate_menu_action_again ==
    /\ app_state = "editing"
    /\ Len(tasks) < MaxRequests
    /\ start_and_manage_image_generation("Image to Image", FALSE)

worker_succeeds(k) ==
    \/ do_inpaint(k)
    \/ \E index \in Indices : generate_caches(k, index)
    \/ cache_generated_image_pad(k)
    \/ cache_generated_image_pop(k)
    \/ cache_generated_image_insert(k)
    \/ generate_returns(k)
    \/ finish_signal(k)

NextRequests ==
    \/ generate_menu_action_again
    \/ \E k \in 1..MaxRequests : worker_succeeds(k)
    \/ finished
    \/ load_generated_image_for_selection
    \/ cancel
    \/ \E option_index \in 0..BatchSize : select_option_and_close(option_index)

SpecRequests == Init /\ [][NextRequests]_vars

\* The bridge with backends that pass back nothing and succeed: the requests,
\* the edits of the document and of the selection, and the tasks' lives.
worker_passes_nothing(k) ==
    \/ do_inpaint(k)
    \/ generate_returns(k)
    \/ finish_signal(k)

NextSnapshot ==
    \/ \E edit_mode \in EditModes, sizes_differ \in BOOLEAN :
           generate_menu_action(edit_mode, sizes_differ)
    \/ \E k \in 1..MaxTasks : worker_passes_nothing(k)
    \/ finished
    \/ cancel
    \/ \E option_index \in 0..BatchSize : select_option_and_close(option_index)
    \/ edit_document
    \/ edit_selection

SpecSnapshot == Init /\ [][NextSnapshot]_vars

\* One request whose backend passes back images with any indices in any
\* order, and the loads of the images into the selector
NextArrival ==
    \/ \E edit_mode \in EditModes : generate_menu_action(edit_mode, FALSE)
    \/ \E k \in 1..MaxTasks : worker_succeeds(k)
    \/ finished
    \/ load_generated_image_for_selection

SpecArrival == Init /\ [][NextArrival]_vars

----------------------------------------------------------------------------
(* The result selector's input handlers, generated_image_selector.py, and the
   ways a generated image is applied to the document *)

\* eventFilter, lines 437-441: the Escape key leaves the zoomed-in view, or
\* closes the selector when it shows all options
key_press_escape ==
    /\ image_selector_visible
    /\ IF zoomed_in
       THEN zoomed_in' = FALSE /\ UNCHANGED image_selector_visible
       ELSE image_selector_visible' = FALSE /\ UNCHANGED zoomed_in
    /\ UNCHANGED <<generated_images, tasks, events, timers, options, app_state,
                   errors_shown, cancel_generation, generation_area_content, mask_image>>
    /\ UNCHANGED <<undo_stack_vars, layer_vars, zoom_index>>
    /\ UNCHANGED outside_document

\* eventFilter, lines 442-443: Enter or Return in the zoomed-in view
key_press_enter ==
    /\ zoomed_in
    /\ select_option_and_close(zoom_index)

\* eventFilter, lines 444-449, and _zoom_to_option, lines 542-549: a digit
\* that is the index of an option zooms in on that option
key_press_digit(num_value) ==
    /\ image_selector_visible
    /\ 0 <= num_value /\ num_value < Len(options)
    /\ zoomed_in' = TRUE
    /\ zoom_index' = num_value
    /\ UNCHANGED generation_vars
    /\ UNCHANGED <<undo_stack_vars, layer_vars>>
    /\ UNCHANGED outside_document

\* eventFilter, lines 454-472, and _show_context_menu, line 403: a left click
\* on option i, or a right click on it and the menu's 'select' entry
mouse_press(i) ==
    /\ app_state # "loading"
    /\ select_option_and_close(i)

\* _show_context_menu._send_to_new_layer, lines 418-422: a right click on
\* option i and the menu's 'send to new layer' entry; the selector stays open
send_to_new_layer(idx) ==
    /\ image_selector_visible
    /\ app_state # "loading"
    /\ idx \in 0..(Len(options) - 1)
    /\ Len(layers) < MaxLayers
    /\ stack_becomes(insert_option_into_layer(create_layer(stack_now), idx,
                                              Len(layers) + 1))
    /\ UNCHANGED <<generated_images, tasks, events, timers, image_selector_visible, options,
                   app_state, errors_shown, cancel_generation, mask_image>>
    /\ UNCHANGED <<undo_stack_vars, selector_vars>>
    /\ UNCHANGED outside_document

\* ImageGenerator.select_and_apply_sample, lines 186-207: the sample image is
\* written into the active layer
select_and_apply_sample(index) ==
    /\ index \in 1..Len(generated_images)
    /\ generated_images[index] # NullImage
    /\ Len(stack_calls) < MaxCalls
    /\ LET st == set_generation_area_content(stack_now, generated_images[index],
                                             active_layer)
       IN /\ stack_becomes(st)
          /\ app_state' = IF st.error = "none" THEN "editing" ELSE app_state
    /\ UNCHANGED <<generated_images, tasks, events, timers, image_selector_visible, options,
                   errors_shown, cancel_generation, mask_image>>
    /\ UNCHANGED <<undo_stack_vars, selector_vars>>
    /\ UNCHANGED outside_document

\* the user locks or hides the active layer, moves it below a locked group
\* or activates a layer of another type, while the editing window is shown;
\* a layer's state is changed once
layer_changes(state) ==
    /\ ~image_selector_visible /\ app_state = "editing"
    /\ layers[active_layer].state = "editable" /\ state # "editable"
    /\ layers' = [layers EXCEPT ![active_layer].state = state]
    /\ generation_area_content' = composite(layers')
    /\ UNCHANGED <<generated_images, tasks, events, timers, image_selector_visible, options,
                   app_state, errors_shown, cancel_generation, mask_image>>
    /\ UNCHANGED <<undo_stack_vars, selector_vars, active_layer, stack_calls>>
    /\ UNCHANGED outside_document

\* a request made when no task is running and nothing of a task is pending
generate_menu_action_idle ==
    /\ \A k \in TaskIds : ~running(k)
    /\ events = <<>> /\ timers = <<>>
    /\ generate_menu_action("Image to Image", FALSE)

NextSelector ==
    \/ generate_menu_action_idle
    \/ \E k \in 1..MaxTasks : worker_succeeds(k)
    \/ finished
    \/ load_generated_image_for_selection
    \/ cancel
    \/ key_press_escape
    \/ key_press_enter
    \/ \E num_value \in 0..BatchSize : key_press_digit(num_value)
    \/ \E i \in 0..BatchSize : mouse_press(i)
    \/ \E idx \in 0..BatchSize : send_to_new_layer(idx)
    \/ \E state \in LayerStates : layer_changes(state)

SpecSelector == Init /\ [][NextSelector]_vars

\* The ways a generated image reaches the document: the selector's handlers
\* and ImageGenerator.select_and_apply_sample.
NextApply ==
    \/ generate_menu_action_idle
    \/ \E k \in 1..MaxTasks : worker_succeeds(k)
    \/ finished
    \/ load_generated_image_for_selection
    \/ key_press_escape
    \/ \E i \in 0..BatchSize : mouse_press(i)
    \/ \E idx \in 0..BatchSize : send_to_new_layer(idx)
    \/ \E index \in 1..BatchSize : select_and_apply_sample(index)
    \/ \E state \in LayerStates : layer_changes(state)

SpecApply == Init /\ [][NextApply]_vars

----------------------------------------------------------------------------
(* Tools: BaseTool's activation (base_tool.py) and CanvasTool with its canvas,
   its control panel and the viewer (canvas_tool.py).  A handler is computed
   on a record of the tool's state, one source statement after the other. *)

\* the state a tool handler starts from; the calls it makes are recorded anew
tool_now ==
    [active |-> active, hooks |-> hooks, cursor |-> cursor, saved_cursor |-> saved_cursor,
     tool_layer |-> tool_layer, drawing |-> drawing, cached_size |-> cached_size,
     brush_size |-> brush_size, tablet |-> tablet, canvas_layer |-> canvas_layer,
     control_panel_enabled |-> control_panel_enabled, hidden |-> hidden,
     canvas_calls |-> <<>>, lock_connections |-> lock_connections]

\* whether a stroke is open on the canvas after these calls
RECURSIVE open_after(_, _)
open_after(open, calls) ==
    IF calls = <<>> THEN open
    ELSE open_after(IF Head(calls).call = "start_stroke" THEN TRUE
                    ELSE IF Head(calls).call = "end_stroke" THEN FALSE
                    ELSE open,
                    Tail(calls))

\* the state a tool handler leaves
tool_becomes(st) ==
    /\ active' = st.active
    /\ hooks' = st.hooks
    /\ cursor' = st.cursor
    /\ saved_cursor' = st.saved_cursor
    /\ tool_layer' = st.tool_layer
    /\ drawing' = st.drawing
    /\ cached_size' = st.cached_size
    /\ brush_size' = st.brush_size
    /\ tablet' = st.tablet
    /\ canvas_layer' = st.canvas_layer
    /\ control_panel_enabled' = st.control_panel_enabled
    /\ hidden' = st.hidden
    /\ canvas_calls' = st.canvas_calls
    /\ stroke_open' = open_after(stroke_open, st.canvas_calls)
    /\ lock_connections' = st.lock_connections

\* BaseTool.cursor setter: while the disabled cursor is shown the new cursor
\* is only saved
cursor_setter(st, new_cursor) ==
    IF st.cursor # "forbidden"
    THEN [st EXCEPT !.cursor = new_cursor]
    ELSE [st EXCEPT !.saved_cursor = new_cursor]

\* BaseTool.set_disabled_cursor
set_disabled_cursor(st, use_disabled_cursor) ==
    IF use_disabled_cursor = (st.cursor = "forbidden") THEN st
    ELSE IF use_disabled_cursor
         THEN [st EXCEPT !.saved_cursor = st.cursor, !.cursor = "forbidden"]
         ELSE [st EXCEPT !.cursor = st.saved_cursor, !.saved_cursor = "none"]

\* a call on the LayerCanvas, recorded with the layer the canvas is connected to
canvas_call(st, made) ==
    [st EXCEPT !.canvas_calls = Append(@, [call |-> made, layer |-> st.canvas_layer])]

\* LayerCanvas.connect_to_layer
connect_to_layer(st, l) == [st EXCEPT !.canvas_layer = l]

\* ImageViewer.stop_rendering_layer
stop_rendering_layer(st, l) == [st EXCEPT !.hidden = @ \cup {l}]

\* ImageViewer.resume_rendering_layer
resume_rendering_layer(st, l) == [st EXCEPT !.hidden = @ \ {l}]

\* Layer.locked
is_locked(l) == layers[l].state = "locked"

\* Layer.locked or Layer.parent_locked
is_locked_or_parent_locked(l) == layers[l].state \in {"locked", "parent_locked"}

\* isinstance(layer, ImageLayer)
is_image_layer(l) == layers[l].state \in {"editable", "locked", "parent_locked", "hidden"}

\* CanvasTool.update_brush_cursor: the scaled brush cursor, while active
update_brush_cursor(st) == IF ~st.active THEN st ELSE cursor_setter(st, "tool")

\* CanvasTool.set_brush_size
set_brush_size(st, new_size) ==
    update_brush_cursor([st EXCEPT !.brush_size = IF new_size > 1 THEN new_size ELSE 1])

\* Signal.connect: one more connection of the layer's lock_changed signal to
\* the tool's slot; a connection that is already there is not replaced
lock_changed_connect(st, l) == [st EXCEPT !.lock_connections[l] = @ + 1]

\* Signal.disconnect: the connections of the signal to the slot are broken
lock_changed_disconnect(st, l) == [st EXCEPT !.lock_connections[l] = 0]

\* CanvasTool._layer_lock_slot, lines 166-179; on an active tool the assertion
\* of line 169 fails for a layer that is not the tool's and nothing is done
layer_lock_slot(st, l, lock) ==
    IF ~st.active \/ l # st.tool_layer THEN st
    ELSE [(IF lock THEN connect_to_layer(st, 0)
           ELSE stop_rendering_layer(connect_to_layer(st, l), l))
          EXCEPT !.control_panel_enabled = ~lock]

\* CanvasTool.layer setter, lines 148-166: the lock slot is handed layer.locked
layer_setter(st, l) ==
    LET disconnected == IF st.tool_layer # 0 /\ st.tool_layer # l
                        THEN lock_changed_disconnect(st, st.tool_layer) ELSE st
        resumed == IF st.tool_layer # 0 /\ st.tool_layer # l /\ is_image_layer(st.tool_layer)
                   THEN resume_rendering_layer(disconnected, st.tool_layer)
                   ELSE disconnected
        assigned == [resumed EXCEPT !.tool_layer = l]
        slotted == IF l # 0
                   THEN layer_lock_slot(lock_changed_connect(assigned, l), l, is_locked(l))
                   ELSE assigned
    IN  IF ~slotted.active THEN slotted
        ELSE IF l = 0 \/ ~is_image_layer(l)
             THEN [connect_to_layer(slotted, 0) EXCEPT !.control_panel_enabled = FALSE]
             ELSE slotted

\* CanvasTool._on_activate
canvas_on_activate(st) ==
    update_brush_cursor(IF st.tool_layer # 0 THEN layer_setter(st, st.tool_layer) ELSE st)

\* CanvasTool._on_deactivate, lines 236-250
canvas_on_deactivate(st) ==
    LET ended ==
            IF st.drawing
            THEN LET restored == IF st.cached_size # 0
                                 THEN [set_brush_size(st, st.cached_size)
                                       EXCEPT !.cached_size = 0]
                                 ELSE st
                 IN  [canvas_call(restored, "end_stroke")
                      EXCEPT !.drawing = FALSE, !.tablet = NoTablet]
            ELSE st
        resumed == IF ended.tool_layer # 0
                   THEN resume_rendering_layer(ended, ended.tool_layer) ELSE ended
    IN  connect_to_layer(resumed, 0)

\* an is_active setter without the test for the value the tool already has
is_active_setter_always(st, value) ==
    LET set == [st EXCEPT !.active = value,
                          !.hooks = Append(@, IF value THEN on_activate_call(FALSE)
                                              ELSE on_deactivate_call)]
    IN  IF value THEN canvas_on_activate(set) ELSE canvas_on_deactivate(set)

\* BaseTool.is_active setter, lines 151-159, with CanvasTool's hooks
is_active_setter(st, value) ==
    IF value = st.active THEN st
    ELSE LET set == [st EXCEPT !.active = value,
                               !.hooks = Append(@, IF value THEN on_activate_call(FALSE)
                                                   ELSE on_deactivate_call)]
         IN  IF value THEN canvas_on_activate(set) ELSE canvas_on_deactivate(set)

\* tool.is_active = value
set_is_active(value) ==
    /\ Len(hooks) < MaxHooks
    /\ tool_becomes(is_active_setter(tool_now, value))
    /\ UNCHANGED <<outside_canvas, layer_vars>>

\* BaseTool.reactivate_after_delegation, lines 161-165: the assertion fails
\* on an active tool and nothing is done
reactivate_after_delegation ==
    /\ Len(hooks) < MaxHooks
    /\ IF active
       THEN tool_becomes(tool_now)
       ELSE tool_becomes(canvas_on_activate(
                [tool_now EXCEPT !.active = TRUE, !.hooks = Append(@, on_activate_call(TRUE))]))
    /\ UNCHANGED <<outside_canvas, layer_vars>>

\* tool.layer = l, for a layer of the document or None
set_layer(l) ==
    /\ l \in 0..Len(layers)
    /\ l # 0 => lock_connections[l] < MaxConnections
    /\ tool_becomes(layer_setter(tool_now, l))
    /\ UNCHANGED <<outside_canvas, layer_vars>>

\* Layer.locked = lock on a layer of the document: the layer's lock_changed
\* signal runs the slot that is connected to it, once for each connection
\* (the slot's effect is the same however often it runs)
layer_locked_setter(l, lock) ==
    /\ l \in 1..Len(layers)
    /\ layers[l].state = (IF lock THEN "editable" ELSE "locked")
    /\ layers' = [layers EXCEPT ![l].state = IF lock THEN "locked" ELSE "editable"]
    /\ tool_becomes(IF lock_connections[l] > 0 THEN layer_lock_slot(tool_now, l, lock)
                    ELSE tool_now)
    /\ UNCHANGED <<outside_canvas, active_layer, stack_calls>>

\* the document gains a layer: an image layer, one created locked, hidden or
\* inside a locked group, or a layer of another type
layer_added(state) ==
    /\ Len(layers) < MaxLayers
    /\ layers' = Append(layers, Layer(state, Content(0)))
    /\ UNCHANGED <<outside_canvas, active_layer, stack_calls>>
    /\ UNCHANGED outside_document

\* CanvasTool._stroke_to: the canvas draws into the layer it is connected to
stroke_to(st) == canvas_call(st, "stroke_to")

\* CanvasTool.mouse_click, lines 301-324, with the left, the right or another
\* button; the pan modifier is not held
canvas_mouse_click(button) ==
    /\ active
    /\ IF tool_layer = 0 \/ button \notin {"left", "right"}
       THEN tool_becomes(tool_now)
       ELSE LET ended == IF drawing THEN canvas_call(tool_now, "end_stroke") ELSE tool_now
                begun == [ended EXCEPT !.drawing = TRUE]
                sized ==
                    IF begun.cached_size # 0 /\ button = "left"
                    THEN [set_brush_size(begun, begun.cached_size) EXCEPT !.cached_size = 0]
                    ELSE IF button = "right"
                         THEN set_brush_size(
                                  [begun EXCEPT !.cached_size =
                                       IF @ = 0 THEN begun.brush_size ELSE @], 1)
                         ELSE begun
            IN  tool_becomes(stroke_to(canvas_call(sized, "start_stroke")))
    /\ UNCHANGED <<outside_canvas, layer_vars>>

\* CanvasTool.mouse_move, lines 326-334: 'left or right and drawing'
canvas_mouse_move(button) ==
    /\ active
    /\ IF tool_layer # 0 /\ (button = "left" \/ (button = "right" /\ drawing))
       THEN tool_becomes(stroke_to(tool_now))
       ELSE tool_becomes(tool_now)
    /\ UNCHANGED <<outside_canvas, layer_vars>>

\* CanvasTool.mouse_release, lines 336-352
canvas_mouse_release ==
    /\ active
    /\ IF tool_layer # 0 /\ drawing
       THEN LET ended == canvas_call(stroke_to([tool_now EXCEPT !.drawing = FALSE]),
                                     "end_stroke")
                restored == IF ended.cached_size # 0
                            THEN [set_brush_size(ended, ended.cached_size)
                                  EXCEPT !.cached_size = 0]
                            ELSE ended
            IN  tool_becomes([restored EXCEPT !.tablet = NoTablet])
       ELSE tool_becomes(tool_now)
    /\ UNCHANGED <<outside_canvas, layer_vars>>

\* CanvasTool.tablet_event, lines 354-364: the stylus is near or on the tablet
canvas_tablet_event(pointer_type, pressed) ==
    /\ active
    /\ tool_becomes([tool_now EXCEPT !.tablet =
           Tablet(pointer_type, IF pressed THEN "pressure" ELSE "none", "tilt", "tilt")])
    /\ UNCHANGED <<outside_canvas, layer_vars>>

\* CanvasTool.adjust_brush_size, from the size hotkeys of the active tool
adjust_brush_size(offset) ==
    /\ active
    /\ brush_size + offset <= MaxBrush
    /\ tool_becomes(set_brush_size(tool_now,
           IF brush_size + offset > 1 THEN brush_size + offset ELSE 1))
    /\ UNCHANGED <<outside_canvas, layer_vars>>

\* a CanvasTool, the document's layers and the pointer
NextCanvas ==
    \/ \E value \in BOOLEAN : set_is_active(value)
    \/ reactivate_after_delegation
    \/ \E l \in 0..MaxLayers : set_layer(l)
    \/ \E l \in 1..MaxLayers, lock \in BOOLEAN : layer_locked_setter(l, lock)
    \/ \E state \in LayerStates : layer_added(state)
    \/ \E button \in {"left", "right", "middle"} : canvas_mouse_click(button)
    \/ \E button \in {"left", "right"} : canvas_mouse_move(button)
    \/ canvas_mouse_release
    \/ \E pointer_type \in {"Pen", "Eraser"}, pressed \in BOOLEAN :
           canvas_tablet_event(pointer_type, pressed)
    \/ \E offset \in {-1, 1} : adjust_brush_size(offset)

SpecCanvas == Init /\ [][NextCanvas]_vars

\* a tool that is activated, deactivated and reactivated while it is given
\* layers and strokes are begun and ended
NextTool ==
    \/ \E value \in BOOLEAN : set_is_active(value)
    \/ reactivate_after_delegation
    \/ \E l \in 0..MaxLayers : set_layer(l)
    \/ \E button \in {"left", "right", "middle"} : canvas_mouse_click(button)
    \/ canvas_mouse_release

SpecTool == Init /\ [][NextTool]_vars

----------------------------------------------------------------------------
(* Tools: the TextTool (text_tool.py), the text layers of the document and
   the undo stack its layer creation writes to.  The handlers run on the UI
   thread; a text layer that was removed keeps its position in layers. *)

\* drags of at most MIN_DRAG_SIZE pixels create nothing
MIN_DRAG_SIZE == 4

\* the widths and heights of the bounds of a drag
DragSizes == {0, MIN_DRAG_SIZE, MIN_DRAG_SIZE + 1}

\* text layers: unlocked, locked, and unlocked inside a locked group
TextLayerStates == {"text", "text_locked", "text_parent_locked"}

\* the drags of the TextTool create layers while the document has held at
\* most MaxLayers + MaxDrags - 1 layers
MaxDrags == 2

\* the type tags of the transactions of a text layer's creation
TextGroupTag == "TextTool._create_and_activate_text_layer"

\* the state a TextTool handler starts from
text_now ==
    [active |-> active, hooks |-> hooks, cursor |-> cursor, saved_cursor |-> saved_cursor,
     control_panel_enabled |-> control_panel_enabled,
     text_layer |-> text_layer, dragging |-> dragging,
     placement_outline |-> placement_outline, text_signals |-> text_signals,
     layers |-> layers, active_layer |-> active_layer, calls |-> stack_calls,
     undo_stack |-> undo_stack, redo_stack |-> redo_stack, open_group |-> open_group,
     next_id |-> next_id, undo_count_changed |-> undo_count_changed,
     redo_count_changed |-> redo_count_changed, undo_in_progress |-> undo_in_progress,
     error |-> "none"]

\* the state a TextTool handler leaves
text_becomes(st) ==
    /\ active' = st.active
    /\ hooks' = st.hooks
    /\ cursor' = st.cursor
    /\ saved_cursor' = st.saved_cursor
    /\ control_panel_enabled' = st.control_panel_enabled
    /\ text_layer' = st.text_layer
    /\ dragging' = st.dragging
    /\ placement_outline' = st.placement_outline
    /\ text_signals' = st.text_signals
    /\ layers' = st.layers
    /\ active_layer' = st.active_layer
    /\ stack_calls' = st.calls
    /\ undo_stack' = st.undo_stack
    /\ redo_stack' = st.redo_stack
    /\ open_group' = st.open_group
    /\ next_id' = st.next_id
    /\ undo_count_changed' = st.undo_count_changed
    /\ redo_count_changed' = st.redo_count_changed
    /\ undo_in_progress' = st.undo_in_progress
    /\ UNCHANGED <<access_lock, in_progress_change, now, pc, frame, exc, ctx, outcome, ran>>
    /\ UNCHANGED <<generation_vars, selector_vars, viewer_vars, config_vars>>
    /\ UNCHANGED <<tool_layer, drawing, cached_size, brush_size, tablet, canvas_layer,
                   hidden, canvas_calls, stroke_open, lock_connections>>

\* isinstance(layer, TextLayer), for a layer that is in the document
is_text_layer(st, l) == l # 0 /\ st.layers[l].state \in TextLayerStates

\* layer.locked or layer.parent_locked
locked_or_parent_locked(st, l) ==
    st.layers[l].state \in {"locked", "parent_locked", "text_locked", "text_parent_locked"}

\* the connections of a signal without the first one from the layer
without_one(connections, l) ==
    LET i == CHOOSE i \in 1..Len(connections) :
                 connections[i] = l /\ \A j \in 1..(i - 1) : connections[j] # l
    IN  SubSeq(connections, 1, i - 1) \o SubSeq(connections, i + 1, Len(connections))

\* signal.disconnect(slot) of a layer's signal: one connection is broken; with
\* none the call fails
layer_signal_disconnect(signals, name, l) ==
    IF l \in Range(signals[name])
    THEN [signals EXCEPT ![name] = without_one(@, l)]
    ELSE [signals EXCEPT !.failed = TRUE]

\* signal.connect(slot) of a layer's signal: one more connection
layer_signal_connect(signals, name, l) ==
    [signals EXCEPT ![name] = Append(@, l),
                    !.failed = @ \/ l \in Range(signals[name])]

\* signal.disconnect(slot) of a control-panel or placement-outline signal
signal_disconnect(signals, name) ==
    IF signals[name] > 0
    THEN [signals EXCEPT ![name] = @ - 1]
    ELSE [signals EXCEPT !.failed = TRUE]

\* signal.connect(slot) of a control-panel or placement-outline signal
signal_connect(signals, name) ==
    [signals EXCEPT ![name] = @ + 1, !.failed = @ \/ signals[name] > 0]

\* TextTool._disconnect_signals, lines 182-189
disconnect_signals(st) ==
    LET l == st.text_layer
        layer_disconnected ==
            IF l # 0
            THEN layer_signal_disconnect(
                     layer_signal_disconnect(
                         layer_signal_disconnect(st.text_signals, "lock_changed", l),
                         "transform_changed", l),
                     "size_changed", l)
            ELSE st.text_signals
    IN  [st EXCEPT !.text_signals =
             signal_disconnect(
                 signal_disconnect(
                     signal_disconnect(layer_disconnected, "text_rect_changed"),
                     "offset_changed"),
                 "placement_changed")]

\* TextTool._connect_signals, lines 191-198
connect_signals(st) ==
    LET l == st.text_layer
        layer_connected ==
            IF l # 0
            THEN layer_signal_connect(
                     layer_signal_connect(
                         layer_signal_connect(st.text_signals, "lock_changed", l),
                         "transform_changed", l),
                     "size_changed", l)
            ELSE st.text_signals
    IN  [st EXCEPT !.text_signals =
             signal_connect(
                 signal_connect(
                     signal_connect(layer_connected, "text_rect_changed"),
                     "offset_changed"),
                 "placement_changed")]

\* TextTool._layer_lock_change_slot, lines 269-275
layer_lock_change_slot(st) ==
    IF ~st.active THEN st
    ELSE LET should_enable ==
                 st.text_layer = 0 \/ ~locked_or_parent_locked(st, st.text_layer)
         IN  set_disabled_cursor(
                 [st EXCEPT !.control_panel_enabled = should_enable,
                            !.placement_outline.enabled = should_enable],
                 ~should_enable)

\* TextTool._disconnect_text_layer, lines 173-180
disconnect_text_layer(st) ==
    IF st.text_layer = 0 THEN st
    ELSE [disconnect_signals(st) EXCEPT !.text_layer = 0,
                                        !.placement_outline.visible = FALSE]

\* the layer is attached with the layer attached before left connected
connect_text_layer_keeping(st, l) ==
    LET attached == [st EXCEPT !.text_layer = l,
                               !.active_layer = l,
                               !.placement_outline.visible = TRUE]
    IN  layer_lock_change_slot(connect_signals(attached))

\* TextTool._connect_text_layer, lines 155-171: the layer becomes the active
\* layer of the ImageStack, whose active_layer_changed signal finds the tool's
\* slot with the layer already attached
connect_text_layer(st, l) ==
    LET attached == [disconnect_text_layer(st) EXCEPT !.text_layer = l,
                                                      !.active_layer = l,
                                                      !.placement_outline.visible = TRUE]
    IN  layer_lock_change_slot(connect_signals(attached))

\* TextTool._active_layer_change_slot, lines 277-285
active_layer_change_slot(st, l) ==
    IF l = st.text_layer \/ ~st.active THEN st
    ELSE IF is_text_layer(st, l) THEN connect_text_layer(st, l)
         ELSE disconnect_text_layer(st)

\* a slot's disconnect - mutate - connect: a mutation of a layer that is
\* locked or below a locked group fails, and the slot is left by the error
\* before it connects again
reconnected_around(st, mutates_layer) ==
    LET disconnected == disconnect_signals(st)
    IN  IF mutates_layer /\ locked_or_parent_locked(st, st.text_layer)
        THEN [disconnected EXCEPT !.error = "LockedError"]
        ELSE connect_signals(disconnected)

\* TextTool._control_text_data_changed_slot, lines 206-213
control_text_data_changed_slot(st) ==
    IF ~st.active \/ st.text_layer = 0 THEN st
    ELSE reconnected_around(st, TRUE)

\* TextTool._control_offset_changed_slot, lines 215-221, with an offset that
\* is or is not the layer's
control_offset_changed_slot(st, differs) ==
    IF st.text_layer = 0 \/ ~st.active THEN st
    ELSE reconnected_around(st, differs)

\* TextTool._placement_outline_changed_slot, lines 223-239, with an offset or
\* a size that is or is not the layer's
placement_outline_changed_slot(st, differs) ==
    IF ~st.active THEN st
    ELSE IF st.text_layer = 0 THEN [st EXCEPT !.error = "AssertionError"]
         ELSE reconnected_around(st, differs)

\* TextTool._layer_size_change_slot, lines 241-253
layer_size_change_slot(st, l) ==
    IF l # st.text_layer
    THEN [st EXCEPT !.text_signals = layer_signal_disconnect(@, "size_changed", l)]
    ELSE IF ~st.active THEN st
         ELSE reconnected_around(st, FALSE)

\* TextTool._layer_transform_change_slot, lines 255-266
layer_transform_change_slot(st, l) ==
    IF l # st.text_layer
    THEN [st EXCEPT !.text_signals = layer_signal_disconnect(@, "transform_changed", l)]
    ELSE IF ~st.active THEN st
         ELSE reconnected_around(st, FALSE)

\* TextTool._on_activate, lines 135-145
text_on_activate(st) ==
    IF is_text_layer(st, st.active_layer) THEN connect_text_layer(st, st.active_layer)
    ELSE st

\* TextTool._on_deactivate, lines 147-153
text_on_deactivate(st) == [disconnect_text_layer(st) EXCEPT !.dragging = FALSE]

\* UndoStack.commit_action called by the UI thread with the lock free: the
\* mutation is made by the caller and recorded as the call 'made'; the commit
\* goes to the open group or on the undo list, and the redo list is cleared
text_commit(st, made, action_type) ==
    LET id == st.next_id
        recorded == [st EXCEPT !.calls = Append(@, [made EXCEPT !.commit = id]),
                               !.next_id = id + 1]
        stacked ==
            IF st.open_group # <<>>
            THEN [recorded EXCEPT !.open_group =
                      <<add_to_group(st.open_group[1], id, id, action_type, now)>>]
            ELSE LET r == record_on_stack(st.undo_stack, id, action_type, now)
                 IN  [recorded EXCEPT !.undo_stack = r.stack,
                                      !.undo_count_changed = emitted(@, r.emit)]
    IN  IF Len(st.redo_stack) > 0
        THEN [stacked EXCEPT !.redo_stack = <<>>, !.redo_count_changed = 0]
        ELSE stacked

\* ImageStack.create_text_layer: the new text layer is put on top and becomes
\* the active layer, as one transaction
create_text_layer(st) ==
    LET l == Len(st.layers) + 1
    IN  text_commit([st EXCEPT !.layers = Append(@, Layer("text", NullImage)),
                               !.active_layer = l],
                    [call |-> "create_text_layer", layer |-> l, result |-> "ok",
                     commit |-> 0, previous_active |-> st.active_layer],
                    "create_text_layer")

\* TransformLayer.transform setter: the layer is placed, as one transaction
set_transform(st, l) ==
    text_commit(st, [call |-> "transform", layer |-> l, result |-> "ok", commit |-> 0,
                     previous_active |-> st.active_layer],
                "transform")

\* the tool's slots run by the signals of a creation: active_layer_changed of
\* the ImageStack with the created layer
layer_created(st) ==
    LET created == create_text_layer(st)
    IN  active_layer_change_slot(created, created.active_layer)

\* and transform_changed of the layer that is placed, where it is connected
layer_placed(st, l) ==
    LET placed == set_transform(st, l)
    IN  IF l \in Range(placed.text_signals.transform_changed)
        THEN layer_transform_change_slot(placed, l)
        ELSE placed

\* the creation of a text layer with each transaction recorded on its own
create_and_activate_text_layer_ungrouped(st) ==
    LET created == layer_created(st)
        l == created.active_layer
    IN  connect_text_layer(layer_placed(created, l), l)

\* TextTool._create_and_activate_text_layer, lines 200-204, inside
\* UndoStack.combining_actions, undo_stack.py lines 166-186: with a group
\* already open the call raises and nothing is created
create_and_activate_text_layer(st) ==
    IF access_lock # "free" \/ st.open_group # <<>>
    THEN [st EXCEPT !.error = "RuntimeError"]
    ELSE LET opened == [st EXCEPT !.open_group = <<UndoGroup(TextGroupTag, now)>>]
             created == layer_created(opened)
             l == created.active_layer
             body == connect_text_layer(layer_placed(created, l), l)
             group == body.open_group[1]
         IN  IF count(group) > 0
             THEN LET r == add_to_stack(group, body.undo_stack, body.undo_stack)
                  IN  [body EXCEPT !.undo_stack = r.stack,
                                   !.undo_count_changed = emitted(@, r.emit),
                                   !.open_group = <<>>]
             ELSE [body EXCEPT !.open_group = <<>>]

\* TextTool.mouse_release, line 123: the size test of a drag
creates_layer(width, height) == width > MIN_DRAG_SIZE \/ height > MIN_DRAG_SIZE

\* BaseTool.is_active setter, base_tool.py lines 151-159, with TextTool's hooks
text_is_active_setter(st, value) ==
    IF value = st.active THEN st
    ELSE LET set == [st EXCEPT !.active = value,
                               !.hooks = Append(@, IF value THEN on_activate_call(FALSE)
                                                   ELSE on_deactivate_call)]
         IN  IF value THEN text_on_activate(set) ELSE text_on_deactivate(set)

\* text_tool.is_active = value
text_set_is_active(value) ==
    /\ Len(hooks) < MaxHooks
    /\ text_becomes(text_is_active_setter(text_now, value))

\* TextTool.mouse_click, lines 85-101, with the left button: on the attached
\* layer, on another text layer, or anywhere else (target 0)
text_mouse_click(target) ==
    /\ active
    /\ target \in 0..Len(layers)
    /\ target # 0 => layers[target].state # "removed"
    /\ IF text_layer # 0 /\ target = text_layer
       THEN text_becomes(text_now)
       ELSE IF is_text_layer(text_now, target)
            THEN text_becomes(connect_text_layer(text_now, target))
            ELSE text_becomes([text_now EXCEPT !.dragging = TRUE])

\* TextTool.mouse_release, lines 119-133: the drag ends with bounds of the
\* given width and height
text_mouse_release(width, height) ==
    /\ active
    /\ Len(layers) < MaxLayers + MaxDrags
    /\ IF dragging
       THEN LET ended == [text_now EXCEPT !.dragging = FALSE]
            IN  IF creates_layer(width, height)
                THEN text_becomes(create_and_activate_text_layer(
                                      disconnect_text_layer(ended)))
                ELSE text_becomes(ended)
       ELSE text_becomes(text_now)

\* Layer.locked = lock on a text layer of the document: its lock_changed
\* signal runs the slot connected to it
text_layer_locked_setter(l, lock) ==
    /\ l \in 1..Len(layers)
    /\ layers[l].state = (IF lock THEN "text" ELSE "text_locked")
    /\ LET set == [text_now EXCEPT
                       !.layers[l].state = IF lock THEN "text_locked" ELSE "text"]
       IN  text_becomes(IF l \in Range(text_signals.lock_changed)
                        THEN layer_lock_change_slot(set)
                        ELSE set)

\* ImageStack.active_layer = l, from the layer panel: active_layer_changed
\* runs the tool's slot
active_layer_setter(l) ==
    /\ l \in 1..Len(layers)
    /\ layers[l].state # "removed" /\ l # active_layer
    /\ text_becomes(active_layer_change_slot([text_now EXCEPT !.active_layer = l], l))

\* what the undo function of a recorded call does to the document: a created
\* layer leaves the document and the layer that was active before is active
\* again, which the tool's slot is told
undo_call(st, made) ==
    IF made.call = "create_text_layer"
    THEN active_layer_change_slot(
             [st EXCEPT !.layers[made.layer].state = "removed",
                        !.active_layer = made.previous_active],
             made.previous_active)
    ELSE st

\* the recorded call of a commit
call_of(calls, id) == calls[CHOOSE i \in 1..Len(calls) : calls[i].commit = id]

\* _UndoGroup.undo: the undo functions run in the order of the entry's list
RECURSIVE run_undo(_, _)
run_undo(st, ids) ==
    IF ids = <<>> THEN st
    ELSE run_undo(undo_call(st, call_of(st.calls, Head(ids))), Tail(ids))

\* UndoStack.undo, undo_stack.py lines 188-200, called by the UI thread with
\* the lock free
text_undo ==
    /\ access_lock = "free"
    /\ IF Len(undo_stack) = 0
       THEN text_becomes([text_now EXCEPT !.undo_in_progress = TRUE])
       ELSE LET last_action_object == undo_stack[Len(undo_stack)]
                popped == [text_now EXCEPT
                               !.undo_stack = SubSeq(undo_stack, 1, Len(undo_stack) - 1)]
                undone == run_undo(popped, last_action_object.undo_actions)
                r == add_to_stack(last_action_object, undone.redo_stack, undone.undo_stack)
            IN  text_becomes(
                    [undone EXCEPT
                         !.redo_stack = r.stack,
                         !.undo_count_changed =
                             IF r.to_undo THEN emitted(Len(undone.undo_stack), r.emit)
                             ELSE Len(undone.undo_stack),
                         !.redo_count_changed =
                             IF r.to_undo THEN @ ELSE emitted(@, r.emit),
                         !.undo_in_progress = FALSE])

\* the document gains a text layer
text_layer_added(state) ==
    /\ state \in TextLayerStates
    /\ layer_added(state)

\* a TextTool, the document's text layers, the pointer and undo
NextText ==
    \/ \E value \in BOOLEAN : text_set_is_active(value)
    \/ \E target \in 0..(MaxLayers + MaxDrags) : text_mouse_click(target)
    \/ \E width \in DragSizes, height \in DragSizes : text_mouse_release(width, height)
    \/ \E l \in 1..(MaxLayers + MaxDrags), lock \in BOOLEAN : text_layer_locked_setter(l, lock)
    \/ \E l \in 1..(MaxLayers + MaxDrags) : active_layer_setter(l)
    \/ \E state \in TextLayerStates : text_layer_added(state)
    \/ text_undo

SpecText == Init /\ [][NextText]_vars

\* the user edits the text or its format in the control panel, which takes
\* input while it is enabled: text_rect_changed runs the slot connected to it
control_text_data_changed ==
    /\ control_panel_enabled /\ text_signals.text_rect_changed > 0
    /\ text_becomes(control_text_data_changed_slot(text_now))

\* the user changes the offset in the control panel
control_offset_changed(differs) ==
    /\ control_panel_enabled /\ text_signals.offset_changed > 0
    /\ text_becomes(control_offset_changed_slot(text_now, differs))

\* the user moves or resizes the placement outline, which takes input while
\* it is visible and enabled
placement_outline_changed(differs) ==
    /\ placement_outline.visible /\ placement_outline.enabled
    /\ text_signals.placement_changed > 0
    /\ text_becomes(placement_outline_changed_slot(text_now, differs))

\* a text layer of the document changes its size: size_changed runs the slot
\* connected to it
layer_size_changed(l) ==
    /\ l \in Range(text_signals.size_changed)
    /\ text_becomes(layer_size_change_slot(text_now, l))

\* a text layer of the document is transformed
layer_transform_changed(l) ==
    /\ l \in Range(text_signals.transform_changed)
    /\ text_becomes(layer_transform_change_slot(text_now, l))

\* a TextTool with the signals of its layer, control panel and placement
\* outline
NextSignals ==
    \/ \E value \in BOOLEAN : text_set_is_active(value)
    \/ \E target \in 0..(MaxLayers + MaxDrags) : text_mouse_click(target)
    \/ \E width \in DragSizes, height \in DragSizes : text_mouse_release(width, height)
    \/ \E l \in 1..(MaxLayers + MaxDrags), lock \in BOOLEAN : text_layer_locked_setter(l, lock)
    \/ \E l \in 1..(MaxLayers + MaxDrags) : active_layer_setter(l)
    \/ \E state \in TextLayerStates : text_layer_added(state)
    \/ text_undo
    \/ control_text_data_changed
    \/ \E differs \in BOOLEAN : control_offset_changed(differs)
    \/ \E differs \in BOOLEAN : placement_outline_changed(differs)
    \/ \E l \in 1..(MaxLayers + MaxDrags) : layer_size_changed(l)
    \/ \E l \in 1..(MaxLayers + MaxDrags) : layer_transform_changed(l)

SpecSignals == Init /\ [][NextSignals]_vars

\* a TextTool whose drags create text layers that are undone
NextDrag ==
    \/ \E value \in BOOLEAN : text_set_is_active(value)
    \/ \E target \in 0..(MaxLayers + MaxDrags) : text_mouse_click(target)
    \/ \E width \in DragSizes, height \in DragSizes : text_mouse_release(width, height)
    \/ text_undo

SpecDrag == Init /\ [][NextDrag]_vars

----------------------------------------------------------------------------
(* The generation area: the viewer's handlers (image_viewer.py), the
   coordinate and size boxes of the image panel (image_panel.py, where the
   rectangle is layer_stack.selection), and the ImageStack property they
   assign.  A handler's float offset is given in halves. *)

\* what the handlers of the generation area leave alone
outside_viewer ==
    <<undo_stack_vars, generation_vars, selector_vars, layer_vars, base_tool_vars,
      canvas_tool_vars, text_tool_vars, config_vars>>

\* the buttons of a mouse event
MouseButtons == {"left", "right"}

\* the scene coordinates of a click: inside the image or next to it
Coordinates == -1..MaxSize

\* the offsets scroll_content is given, in halves: -1.5, -0.5, 0, 0.5, 1
Halves == {-3, -1, 0, 1, 2}

\* the values of the coordinate boxes, and those of the size boxes
BoxCoordinates == 0..MaxSize
BoxSizes == 1..MaxSize

\* Python's min and max
min(a, b) == IF a <= b THEN a ELSE b
max(a, b) == IF a >= b THEN a ELSE b

\* Python's int() of a float given in halves: the fraction is dropped
int(halves) == IF halves >= 0 THEN halves \div 2 ELSE -((-halves) \div 2)

\* QRect.moveTopLeft, moveLeft, moveTop, translated, setWidth, setHeight
moveTopLeft(rect, px, py) == [rect EXCEPT !.x = px, !.y = py]
moveLeft(rect, px) == [rect EXCEPT !.x = px]
moveTop(rect, py) == [rect EXCEPT !.y = py]
translated(rect, dx, dy) == [rect EXCEPT !.x = rect.x + dx, !.y = rect.y + dy]
setWidth(rect, w) == [rect EXCEPT !.width = w]
setHeight(rect, h) == [rect EXCEPT !.height = h]

\* ImageStack.generation_area's setter keeps the rectangle in the document: no
\* wider or higher than the document, and moved back inside it
clamp(rect, size) ==
    LET w == min(rect.width, size.width)
        h == min(rect.height, size.height)
    IN  Rect(max(0, min(rect.x, size.width - w)), max(0, min(rect.y, size.height - h)), w, h)

\* self._layer_stack.generation_area = rect
assign_generation_area(rect) ==
    /\ generation_area' = clamp(rect, document_size)
    /\ area_assigned' = <<rect>>

\* ImageViewer.mousePressEvent: a left click that the graphics view did not
\* handle moves the generation area's corner to the clicked point
viewer_mouse_press(handled, button, px, py) ==
    /\ handled \in BOOLEAN /\ button \in MouseButtons
    /\ px \in Coordinates /\ py \in Coordinates
    /\ IF ~handled /\ button = "left"
       THEN assign_generation_area(moveTopLeft(generation_area, px, py))
       ELSE /\ area_assigned' = <<>>
            /\ UNCHANGED generation_area
    /\ returned' = <<>>
    /\ UNCHANGED <<document_size, edit_size>>
    /\ UNCHANGED outside_viewer

\* what scroll_content returns, line 171
scroll_result_always(before, after) == TRUE

scroll_result(before, after) == after # before

\* ImageViewer.scroll_content
scroll_content(dx, dy) ==
    /\ dx \in Halves /\ dy \in Halves
    /\ assign_generation_area(translated(generation_area, int(dx), int(dy)))
    /\ returned' = <<scroll_result(generation_area, generation_area')>>
    /\ UNCHANGED <<document_size, edit_size>>
    /\ UNCHANGED outside_viewer

\* ImagePanel's set_x: the x coordinate box changed
set_x(value) ==
    /\ value \in BoxCoordinates
    /\ assign_generation_area(
           moveLeft(generation_area, min(value, document_size.width - generation_area.width)))
    /\ returned' = <<>>
    /\ UNCHANGED <<document_size, edit_size>>
    /\ UNCHANGED outside_viewer

\* ImagePanel's set_y: the y coordinate box changed
set_y(value) ==
    /\ value \in BoxCoordinates
    /\ assign_generation_area(
           moveTop(generation_area, min(value, document_size.height - generation_area.height)))
    /\ returned' = <<>>
    /\ UNCHANGED <<document_size, edit_size>>
    /\ UNCHANGED outside_viewer

\* ImagePanel's set_w: the width box was edited; the width the area then has is
\* stored as the configured edit size
set_w(value) ==
    /\ value \in BoxSizes
    /\ assign_generation_area(setWidth(generation_area, value))
    /\ edit_size' = Size(generation_area'.width, edit_size.height)
    /\ returned' = <<>>
    /\ UNCHANGED document_size
    /\ UNCHANGED outside_viewer

\* ImagePanel's set_h: the height box was edited
set_h(value) ==
    /\ value \in BoxSizes
    /\ assign_generation_area(setHeight(generation_area, value))
    /\ edit_size' = Size(edit_size.width, generation_area'.height)
    /\ returned' = <<>>
    /\ UNCHANGED document_size
    /\ UNCHANGED outside_viewer

\* the document is resized: the generation area is clamped or repositioned
resize_document(width, height) ==
    /\ width \in 1..MaxSize /\ height \in 1..MaxSize
    /\ document_size' = Size(width, height)
    /\ generation_area' = clamp(generation_area, Size(width, height))
    /\ area_assigned' = <<>>
    /\ returned' = <<>>
    /\ UNCHANGED edit_size
    /\ UNCHANGED outside_viewer

NextArea ==
    \/ \E value \in BoxCoordinates : set_x(value)
    \/ \E value \in BoxCoordinates : set_y(value)
    \/ \E value \in BoxSizes : set_w(value)
    \/ \E value \in BoxSizes : set_h(value)
    \/ \E handled \in BOOLEAN, button \in MouseButtons, px \in Coordinates, py \in Coordinates :
           viewer_mouse_press(handled, button, px, py)
    \/ \E dx \in Halves, dy \in Halves : scroll_content(dx, dy)
    \/ \E width \in 1..MaxSize, height \in 1..MaxSize : resize_document(width, height)

SpecArea == Init /\ [][NextArea]_vars

----------------------------------------------------------------------------
(* Config's change callbacks (config.py): _connected holds for each key a
   dict from the connected object to its callback; a dict keeps its items in
   the order of their insertion.  connect, disconnect and disconnect_all take
   no lock and are called at any point, by a callback or by another thread;
   a set() made while a set() is in progress is made by the callback that is
   running. *)

\* what the Config's operations leave alone
outside_config ==
    <<undo_stack_vars, generation_vars, selector_vars, layer_vars, base_tool_vars,
      canvas_tool_vars, text_tool_vars, viewer_vars, config_lock_vars>>

\* an item of a dict
Item(object, callback) == [object |-> object, callback |-> callback]

\* the position of an object's item in a dict's items (0: no item)
position(items, object) ==
    IF \E i \in DOMAIN items : items[i].object = object
    THEN CHOOSE i \in DOMAIN items : items[i].object = object
    ELSE 0

\* Python's dict[key] = value appending an item whatever the dict holds
setitem_appending(items, object, callback) == Append(items, Item(object, callback))

\* Python's dict[key] = value: the value of an item that is there is replaced
setitem(items, object, callback) ==
    IF position(items, object) # 0
    THEN [items EXCEPT ![position(items, object)].callback = callback]
    ELSE Append(items, Item(object, callback))

\* Python's dict.pop(key, None)
dict_pop(items, object) == SelectSeq(items, LAMBDA item : item.object # object)

\* the innermost set() call in progress
innermost == set_calls[Len(set_calls)]

\* the thread is outside set(), or inside a callback of the innermost set()
in_callback == set_calls # <<>> => innermost.invoking # <<>>

\* what the outermost set() call in progress knows of an object's connection
\* to its key: the value its callback was last invoked with since that call
\* began (<<>>: not invoked since), or that it was connected since
Notified(value) == [connected_since |-> FALSE, value |-> value]
Connected == [connected_since |-> TRUE, value |-> <<>>]

notify(calls, key, object, value) ==
    IF calls # <<>> /\ calls[1].key = key
    THEN [calls EXCEPT ![1].notified[object] = value]
    ELSE calls

\* Config.connect, without inner_key: KeyError for a key that is not tracked
config_connect(connected_object, key, on_change_fn) ==
    /\ key \in Keys /\ connected_object \in Objects /\ on_change_fn \in Callbacks
    /\ config_connected' =
           [config_connected EXCEPT ![key] = setitem(@, connected_object, on_change_fn)]
    /\ latest_connected' =
           [latest_connected EXCEPT ![key][connected_object] = on_change_fn]
    /\ set_calls' = notify(set_calls, key, connected_object, Connected)
    /\ UNCHANGED entries
    /\ UNCHANGED outside_config

\* Config.disconnect: KeyError for a key that is not tracked
config_disconnect(connected_object, key) ==
    /\ key \in Keys /\ connected_object \in Objects
    /\ config_connected' = [config_connected EXCEPT ![key] = dict_pop(@, connected_object)]
    /\ latest_connected' = [latest_connected EXCEPT ![key][connected_object] = NotConnected]
    /\ UNCHANGED <<entries, set_calls>>
    /\ UNCHANGED outside_config

\* Config.disconnect_all
config_disconnect_all(connected_object) ==
    /\ connected_object \in Objects
    /\ config_connected' = [key \in Keys |-> dict_pop(config_connected[key], connected_object)]
    /\ latest_connected' =
           [key \in Keys |-> [latest_connected[key] EXCEPT ![connected_object] = NotConnected]]
    /\ UNCHANGED <<entries, set_calls>>
    /\ UNCHANGED outside_config

\* a set() call that has callbacks to invoke: callbacks is what is left of the
\* copy of the key's items made at line 384, latest what each object had
\* connected when set() was called, invoking the item whose callback is
\* running, invoked the items whose callbacks the call has invoked
SetCall(key, value) ==
    [key |-> key, value |-> value, callbacks |-> config_connected[key],
     latest |-> latest_connected[key], invoking |-> <<>>, invoked |-> <<>>,
     notified |-> [object \in Objects |-> Notified(<<>>)]]

\* Config.set, lines 362-384, with at most depth calls in progress: nothing
\* more is done when the value is the one the key has; otherwise the key's
\* items are copied for the loop
set_within(depth, key, value) ==
    /\ in_callback /\ Len(set_calls) < depth
    /\ key \in Keys /\ value \in Values
    /\ IF entries[key] = value
       THEN UNCHANGED <<entries, set_calls>>
       ELSE /\ entries' = [entries EXCEPT ![key] = value]
            /\ set_calls' = IF config_connected[key] = <<>> THEN set_calls
                            ELSE Append(set_calls, SetCall(key, value))
    /\ UNCHANGED <<config_connected, latest_connected>>
    /\ UNCHANGED outside_config

\* Config.set
config_set(key, value) == set_within(MaxNested, key, value)

\* Config.set, lines 385-393: the loop invokes the next callback of the copy
callback_invoked ==
    /\ set_calls # <<>> /\ innermost.invoking = <<>>
    /\ set_calls' =
           notify([set_calls EXCEPT ![Len(set_calls)] =
                      [innermost EXCEPT !.invoking = <<Head(innermost.callbacks)>>,
                                        !.callbacks = Tail(innermost.callbacks),
                                        !.invoked = Append(@, Head(innermost.callbacks))]],
                  innermost.key, Head(innermost.callbacks).object,
                  Notified(<<innermost.value>>))
    /\ UNCHANGED <<entries, config_connected, latest_connected>>
    /\ UNCHANGED outside_config

\* the outcomes of a callback: it returns, it raises the RuntimeError of a
\* deleted Qt object, or it raises something else
Outcomes == {"returns", "already deleted", "raises"}

\* the items a loop over the dict itself would still reach: those of objects
\* that are connected to the key
next_callbacks_connected(made) ==
    SelectSeq(made.callbacks,
              LAMBDA item : position(config_connected[made.key], item.object) # 0)

\* the items the loop of lines 385-401 still has to reach: the rest of the copy
next_callbacks(made) == made.callbacks

value_differs_never(made) == FALSE

\* Config.set, lines 400-401: the key no longer has the value set() was given
value_differs(made) == entries[made.key] # made.value

\* Config.set, lines 394-401: the callback has ended.  The source of a deleted
\* object is disconnected; another exception leaves set(); the loop ends when
\* the key no longer has the value set() was given or the copy is exhausted
callback_ended(callback_outcome) ==
    /\ set_calls # <<>> /\ innermost.invoking # <<>>
    /\ callback_outcome \in Outcomes
    /\ IF callback_outcome = "already deleted"
       THEN /\ config_connected' =
                   [config_connected EXCEPT ![innermost.key] =
                        dict_pop(@, innermost.invoking[1].object)]
            /\ latest_connected' =
                   [latest_connected EXCEPT ![innermost.key][innermost.invoking[1].object] =
                        NotConnected]
       ELSE UNCHANGED <<config_connected, latest_connected>>
    /\ set_calls' =
           IF \/ callback_outcome = "raises"
              \/ value_differs(innermost)
              \/ next_callbacks(innermost) = <<>>
           THEN SubSeq(set_calls, 1, Len(set_calls) - 1)
           ELSE [set_calls EXCEPT ![Len(set_calls)] =
                    [innermost EXCEPT !.invoking = <<>>,
                                      !.callbacks = next_callbacks(innermost)]]
    /\ UNCHANGED entries
    /\ UNCHANGED outside_config

NextConfig ==
    \/ \E connected_object \in Objects, key \in Keys, on_change_fn \in Callbacks :
           config_connect(connected_object, key, on_change_fn)
    \/ \E connected_object \in Objects, key \in Keys : config_disconnect(connected_object, key)
    \/ \E connected_object \in Objects : config_disconnect_all(connected_object)
    \/ \E key \in Keys, value \in Values : config_set(key, value)
    \/ callback_invoked
    \/ \E callback_outcome \in Outcomes : callback_ended(callback_outcome)

SpecConfig == Init /\ [][NextConfig]_vars

\* one key, set by the thread that runs the callbacks; every call into the
\* Config is made outside set() or by the callback that is running, and no
\* callback lets an exception other than that of a deleted object escape
PassKey == "edit_size"

\* no set() inside set(): the key keeps the value set() gave it until set() ends
NextSinglePass ==
    \/ \E connected_object \in Objects, on_change_fn \in Callbacks :
           in_callback /\ config_connect(connected_object, PassKey, on_change_fn)
    \/ \E connected_object \in Objects :
           in_callback /\ config_disconnect(connected_object, PassKey)
    \/ \E connected_object \in Objects :
           in_callback /\ config_disconnect_all(connected_object)
    \/ \E value \in Values : set_within(1, PassKey, value)
    \/ callback_invoked
    \/ \E callback_outcome \in {"returns", "already deleted"} : callback_ended(callback_outcome)

SpecSinglePass == Init /\ [][NextSinglePass]_vars

\* set() inside set(), each object connecting the one callback it has
NextPass ==
    \/ \E connected_object \in Objects :
           in_callback /\ config_connect(connected_object, PassKey, "on_change")
    \/ \E connected_object \in Objects :
           in_callback /\ config_disconnect(connected_object, PassKey)
    \/ \E connected_object \in Objects :
           in_callback /\ config_disconnect_all(connected_object)
    \/ \E value \in Values : set_within(MaxPasses, PassKey, value)
    \/ callback_invoked
    \/ \E callback_outcome \in {"returns", "already deleted"} : callback_ended(callback_outcome)

SpecPass == Init /\ [][NextPass]_vars

----------------------------------------------------------------------------
(* The Config's lock.  self._lock is a threading.Lock (line 85), which is   *)
(* not reentrant: acquire blocks while the lock is held, whichever thread   *)
(* holds it.  A thread is at a place of get(), set() or _write_to_json();    *)
(* the Config was given a saved_value_path, and no callback is connected,   *)
(* so that the loop of lines 384-401 has nothing to invoke.                  *)

\* what the steps of get(), set() and _write_to_json() leave alone
outside_config_lock ==
    <<undo_stack_vars, generation_vars, selector_vars, layer_vars, base_tool_vars,
      canvas_tool_vars, text_tool_vars, viewer_vars, config_connected, latest_connected,
      set_calls>>

\* Lock.acquire, the entry of a `with self._lock:` block
acquire(thread) == config_lock = "free"

\* the thread waits at the entry of a `with self._lock:` block
waits(thread) ==
    config_at[thread].at \in {"get", "set", "save", "write"}

\* Config.get, lines 213-215, up to the lock
get_called(thread, key) ==
    /\ config_at[thread].at = "outside" /\ key \in Keys
    /\ config_at' = [config_at EXCEPT ![thread] = [at |-> "get", key |-> key]]
    /\ UNCHANGED <<entries, config_lock, save_timer, json_file>>
    /\ UNCHANGED outside_config_lock

\* Config.get, lines 215-216: the value is read under the lock
get_returns(thread) ==
    /\ config_at[thread].at = "get" /\ acquire(thread)
    /\ config_at' = [config_at EXCEPT ![thread] = Outside]
    /\ UNCHANGED <<entries, config_lock, save_timer, json_file>>
    /\ UNCHANGED outside_config_lock

\* Config.set, lines 361-364, up to the lock
set_called(thread, key, value, save_change) ==
    /\ config_at[thread].at = "outside" /\ key \in Keys /\ value \in Values
    /\ config_at' = [config_at EXCEPT ![thread] =
                        [at |-> "set", key |-> key, value |-> value,
                         save_change |-> save_change]]
    /\ UNCHANGED <<entries, config_lock, save_timer, json_file>>
    /\ UNCHANGED outside_config_lock

\* Config.set, lines 365-370: the value is assigned under the lock, which is
\* released; set() returns when the value did not change, and without
\* save_change it goes on to the callbacks, of which there are none
set_value(thread) ==
    /\ config_at[thread].at = "set" /\ acquire(thread)
    /\ config_connected[config_at[thread].key] = <<>>
    /\ entries' = [entries EXCEPT ![config_at[thread].key] = config_at[thread].value]
    /\ config_at' =
           [config_at EXCEPT ![thread] =
               IF entries[config_at[thread].key] # config_at[thread].value
                  /\ config_at[thread].save_change
               THEN [@ EXCEPT !.at = "save"] ELSE Outside]
    /\ UNCHANGED <<config_lock, save_timer, json_file>>
    /\ UNCHANGED outside_config_lock

\* Config.set, lines 371-382: the lock is taken again.  With the save timer
\* active nothing is done; on the main thread the timer is started; on
\* another thread _write_to_json() is called with the lock held
schedule_save(thread) ==
    /\ config_at[thread].at = "save" /\ acquire(thread)
    /\ IF save_timer
       THEN /\ config_at' = [config_at EXCEPT ![thread] = Outside]
            /\ UNCHANGED <<config_lock, save_timer>>
       ELSE IF thread = main_thread
       THEN /\ save_timer' = TRUE
            /\ config_at' = [config_at EXCEPT ![thread] = Outside]
            /\ UNCHANGED config_lock
       ELSE /\ config_lock' = thread
            /\ config_at' = [config_at EXCEPT ![thread] = [at |-> "write", caller |-> "set"]]
            /\ UNCHANGED save_timer
    /\ UNCHANGED <<entries, json_file>>
    /\ UNCHANGED outside_config_lock

\* the single-shot save timer fires on the main thread: write_change, lines
\* 376-379, calls _write_to_json()
save_timer_timeout ==
    /\ save_timer /\ config_at[main_thread].at = "outside"
    /\ save_timer' = FALSE
    /\ config_at' = [config_at EXCEPT ![main_thread] = [at |-> "write", caller |-> "timer"]]
    /\ UNCHANGED <<entries, config_lock, json_file>>
    /\ UNCHANGED outside_config_lock

\* Config._write_to_json, lines 634-642: the entries are written under the
\* lock.  Back in set(), the block of line 371 ends and releases the lock
write_to_json(thread) ==
    /\ config_at[thread].at = "write" /\ acquire(thread)
    /\ json_file' = <<entries>>
    /\ config_lock' = "free"
    /\ config_at' = [config_at EXCEPT ![thread] = Outside]
    /\ UNCHANGED <<entries, save_timer>>
    /\ UNCHANGED outside_config_lock

NextConfigLock ==
    \/ \E thread \in Threads, key \in Keys : get_called(thread, key)
    \/ \E thread \in Threads : get_returns(thread)
    \/ \E thread \in Threads, key \in Keys, value \in Values, save_change \in BOOLEAN :
           set_called(thread, key, value, save_change)
    \/ \E thread \in Threads : set_value(thread)
    \/ \E thread \in Threads : schedule_save(thread)
    \/ save_timer_timeout
    \/ \E thread \in Threads : write_to_json(thread)

SpecConfigLock == Init /\ [][NextConfigLock]_vars

----------------------------------------------------------------------------
(* Properties *)

Reverse(s) == [i \in 1..Len(s) |-> s[Len(s) + 1 - i]]

Min(a, b) == IF a < b THEN a ELSE b

Last(s) == s[Len(s)]

Front(s) == SubSeq(s, 1, Len(s) - 1)

\* number of commits recorded so far
committed == next_id - 1

\* the ids of a sequence of calls
ids_of(calls) == [i \in 1..Len(calls) |-> calls[i].id]

Decreasing(s) == \A i \in 1..Len(s) - 1 : s[i] > s[i + 1]

Increasing(s) == \A i \in 1..Len(s) - 1 : s[i] < s[i + 1]

\* this step is the successful return of thread t's commit_action
CommitReturns(t) ==
    /\ frame[t].op = "commit_action"
    /\ outcome'[t] = [op |-> "commit_action", result |-> "ok"]

\* C1: the undo and redo lists never hold more than MAX_UNDO entries; between
\* operations the two lists together hold exactly the latest
\* min(k, MAX_UNDO) of the k non-merging commits, oldest first, so after
\* k > MAX_UNDO commits undo_count() is MAX_UNDO; and the j-th successive
\* undo() runs the undo function of the j-th latest commit and nothing else.
BoundedHistory ==
    /\ undo_count <= MAX_UNDO
    /\ redo_count <= MAX_UNDO
    /\ pc["ui"] = "idle" =>
          LET history == undo_stack \o Reverse(redo_stack) IN
          /\ Len(history) = Min(committed, MAX_UNDO)
          /\ \A i \in 1..Len(history) :
                /\ ~history[i].group
                /\ history[i].undo_actions = <<committed - Len(history) + i>>
          /\ (redo_stack = <<>> /\ committed > MAX_UNDO) => undo_count = MAX_UNDO
    /\ (pc["ui"] = "callback" /\ frame["ui"].op = "undo") =>
          ran = <<[fn |-> "undo_action", id |-> committed - redo_count]>>

\* C1 witness: more than MAX_UNDO commits were made and MAX_UNDO successive
\* undo() calls have emptied the undo list
BoundedHistoryWitness ==
    /\ committed > MAX_UNDO
    /\ pc["ui"] = "idle"
    /\ outcome["ui"] = [op |-> "undo", result |-> "ok"]
    /\ redo_count = MAX_UNDO
    /\ undo_count = 0

\* C2: with no group open, a commit recorded less than the merge interval
\* after the top entry was stamped, with the same type tag, leaves one entry
\* that holds both, the later commit's undo function first; a commit recorded
\* the interval or more after it is pushed as a separate entry.  The single
\* undo() of a merged entry runs every undo function it holds, latest first.
MergeIdempotence ==
    /\ [][\A t \in Threads :
            (CommitReturns(t) /\ open_group = <<>> /\ undo_stack # <<>>) =>
                LET top == Last(undo_stack)
                    new == Last(undo_stack')
                IN IF now - top.timestamp < MergeInterval
                   THEN top.type = <<frame[t].tag>> =>
                           /\ Front(undo_stack') = Front(undo_stack)
                           /\ Len(undo_stack') = Len(undo_stack)
                           /\ new.group
                           /\ new.type = top.type
                           /\ new.undo_actions = <<next_id>> \o top.undo_actions
                           /\ new.redo_actions = Append(top.redo_actions, next_id)
                   ELSE /\ undo_stack' = Append(undo_stack, new)
                        /\ ~new.group
                        /\ new.undo_actions = <<next_id>>
                        /\ new.redo_actions = <<next_id>>]_vars
    /\ [](\A t \in Threads :
            (pc[t] = "callback" /\ frame[t].op = "undo") =>
                LET calls == ran \o Tail(frame[t].todo) IN
                /\ Len(calls) = count(frame[t].item[1])
                /\ \A i \in 1..Len(calls) : calls[i].fn = "undo_action"
                /\ Decreasing(ids_of(calls)))

\* C2 witness: two commits with tag "a" were merged and one undo() has run
\* both undo functions, commit 2's first
MergeIdempotenceWitness ==
    /\ pc["ui"] = "idle"
    /\ outcome["ui"] = [op |-> "undo", result |-> "ok"]
    /\ ran = <<[fn |-> "undo_action", id |-> 2], [fn |-> "undo_action", id |-> 1]>>
    /\ undo_stack = <<>>
    /\ Len(redo_stack) = 1
    /\ redo_stack[1].type = <<"a">>

\* C3: whenever commit_action has returned successfully, redo_count() is 0
CommitClearsRedo ==
    \A t \in Threads :
        outcome[t] = [op |-> "commit_action", result |-> "ok"] => redo_count = 0

\* C3 witness: commit 1 was undone, which left it on the redo list, and
\* commit 2, made inside a combining_actions block, has returned
CommitClearsRedoWitness ==
    /\ pc["ui"] = "idle"
    /\ outcome["ui"] = [op |-> "commit_action", result |-> "ok"]
    /\ undo_in_progress = FALSE
    /\ undo_count_changed = 1
    /\ undo_stack = <<>>
    /\ open_group # <<>>
    /\ open_group[1].undo_actions = <<2>>
    /\ redo_stack = <<>>

NestedCommitRejected ==
    [][\A t \in Threads :
          (/\ InsideLock(t) /\ access_lock = t
           /\ \E action_type \in Tags, skip \in BOOLEAN :
                  commit_action(t, action_type, skip, MaxCommits)) =>
              /\ exc'[t] = "concurrent"
              /\ outcome'[t] = [op |-> "commit_action", result |-> "concurrent"]
              /\ pc'[t] = pc[t]
              /\ UNCHANGED <<undo_stack, redo_stack, open_group, access_lock, next_id,
                             frame, ran>>]_vars

\* C5 witness: a commit_action call made from a callable that redo() runs has
\* been rejected
NestedCommitRejectedWitness ==
    /\ pc["ui"] = "callback"
    /\ frame["ui"].op = "redo"
    /\ access_lock = "ui"
    /\ exc["ui"] = "concurrent"
    /\ outcome["ui"] = [op |-> "commit_action", result |-> "concurrent"]

\* C6, as claimed: no thread that called commit_action ever waits for the
\* lock while another thread holds it
ConcurrentCommitFailsFast ==
    \A t \in Threads :
        ~(/\ pc[t] = "acquire"
          /\ frame[t].op = "commit_action"
          /\ access_lock \in Threads \ {t})

\* C7, as claimed: when the concurrent-change error of a rejected
\* commit_action call has left the enclosing operation, the undo list, the
\* redo list and the open group are what they were when that operation started
RejectedCommitKeepsHistory ==
    [][\A t \in Threads :
          (/\ InsideLock(t)
           /\ exc[t] = "concurrent"
           /\ outcome[t] = [op |-> "commit_action", result |-> "concurrent"]
           /\ pc'[t] = "idle") =>
              /\ undo_stack' = frame[t].pre[1].undo_stack
              /\ redo_stack' = frame[t].pre[1].redo_stack
              /\ open_group' = frame[t].pre[1].open_group]_vars

\* C8, as claimed: when the action function of a commit_action call raises,
\* the undo list, the redo list, the open group and the in-progress marker
\* ('none') are what they were before the call
CommitAllOrNothing ==
    [][\A t \in Threads :
          (/\ pc[t] = "callback"
           /\ frame[t].op = "commit_action"
           /\ exc[t] = "callback_error"
           /\ pc'[t] = "idle") =>
              /\ undo_stack' = frame[t].pre[1].undo_stack
              /\ redo_stack' = frame[t].pre[1].redo_stack
              /\ open_group' = frame[t].pre[1].open_group
              /\ in_progress_change' = frame[t].pre[1].in_progress_change
              /\ in_progress_change' = "none"]_vars

\* C9: a thread that is not inside an undo-stack operation does not hold the
\* lock, however its operations ended
LockReleasedOnExit ==
    \A t \in Threads : pc[t] \in {"idle", "acquire"} => access_lock # t

\* C9 witness: a callable run by undo() raised and undo() has been left
LockReleasedOnExitWitness ==
    /\ pc["ui"] = "idle"
    /\ outcome["ui"] = [op |-> "undo", result |-> "callback_error"]
    /\ access_lock = "free"

\* C10: while a group is open it holds, in commit order, the latest commits,
\* each commit that returns is appended to it and leaves the undo list
\* alone; a combining_actions block that closes normally pushes the group as
\* one entry when it holds a commit and pushes nothing when it holds none
GroupCollectsCommits ==
    /\ [](open_group # <<>> =>
            LET g == open_group[1] IN
            /\ g.undo_actions = Reverse(g.redo_actions)
            /\ g.redo_actions =
                   [i \in 1..Len(g.redo_actions) |-> committed - Len(g.redo_actions) + i])
    /\ [][\A t \in Threads :
            /\ (CommitReturns(t) /\ open_group # <<>>) =>
                  /\ undo_stack' = undo_stack
                  /\ open_group' # <<>>
                  /\ open_group'[1].redo_actions = Append(open_group[1].redo_actions, next_id)
            /\ (/\ frame[t].op = "combining_actions_exit"
                /\ outcome'[t] = [op |-> "combining_actions_exit", result |-> "ok"]) =>
                  /\ open_group' = <<>>
                  /\ IF Len(open_group[1].redo_actions) > 0
                     THEN undo_stack' = Append(undo_stack, open_group[1])
                     ELSE undo_stack' = undo_stack]_vars

\* C10 witness: a combining_actions block in which commits 1 and 2 were made
\* has closed and left one entry holding both
GroupCollectsCommitsWitness ==
    /\ pc["ui"] = "idle"
    /\ outcome["ui"] = [op |-> "combining_actions_exit", result |-> "ok"]
    /\ Len(undo_stack) = 1
    /\ undo_stack[1].type[1] = "g"
    /\ undo_stack[1].redo_actions = <<1, 2>>
    /\ undo_stack[1].undo_actions = <<2, 1>>

\* this step is the normal end of thread t's combining_actions block
GroupCloses(t) ==
    /\ frame[t].op = "combining_actions_exit"
    /\ outcome'[t] = [op |-> "combining_actions_exit", result |-> "ok"]

\* C11, as claimed: whenever no thread is inside a combining_actions block or
\* an undo-stack operation, no group is open, whether the blocks that were
\* entered ended normally or because their bodies raised
GroupClosedOnExit ==
    (\A t \in Threads : ctx[t] = "none" /\ pc[t] = "idle") => open_group = <<>>

\* C12, as claimed: an undo() called at top level on an empty undo list leaves
\* both lists, the open group, the undo_in_progress flag and the last emitted
\* counts as they were
EmptyUndoIsNoOp ==
    [][\A t \in Threads :
          (pc[t] = "idle" /\ undo_stack = <<>> /\ undo(t)) =>
              UNCHANGED <<undo_stack, redo_stack, open_group, undo_in_progress,
                          undo_count_changed, redo_count_changed>>]_vars

\* C13, as claimed: when an undo() completes, the value last emitted on
\* undo_count_changed is undo_count() and the value last emitted on
\* redo_count_changed is redo_count()
CountsAnnounced ==
    [][\A t \in Threads :
          (frame[t].op = "undo" /\ outcome'[t] = [op |-> "undo", result |-> "ok"]) =>
              /\ undo_count_changed' = Len(undo_stack')
              /\ redo_count_changed' = Len(redo_stack')]_vars

\* C14, as claimed: a step that adds an entry to the undo list, by a commit
\* recorded with no group open or by the normal end of a combining_actions
\* block that holds a commit, leaves the redo list empty
NewEntryEmptiesRedo ==
    [][\A t \in Threads :
          \/ CommitReturns(t) /\ open_group = <<>>
          \/ GroupCloses(t) /\ Len(open_group[1].redo_actions) > 0
          => redo_stack' = <<>>]_vars

----------------------------------------------------------------------------
(* Properties of the image generation bridge *)

\* an error signal of task k is queued for the UI thread or was handled
error_delivered(k) ==
    \/ \E i \in DOMAIN events : events[i].signal = "error_signal" /\ events[i].task = k
    \/ \E i \in DOMAIN errors_shown : errors_shown[i].task = k

\* the error of task k was shown to the user
error_shown(k) == \E i \in DOMAIN errors_shown : errors_shown[i].task = k

\* task k's function has ended and nothing of the task waits in the queue
over(k) == ~running(k) /\ \A i \in DOMAIN events : events[i].task # k

\* in this step the backend of task k passes back an image
generate_caches_step(k) ==
    tasks[k].worker = "generate" /\ tasks'[k].worker \in {"cache_pad", "cache_pop"}

\* this step puts no image of task k into an option of the selector
NoNewOption(k) ==
    \A i \in DOMAIN options' :
        (options'[i].kind = "sample" /\ options'[i].task = k) =>
            (i \in DOMAIN options /\ options[i] = options'[i])

\* this step applies no image of task k to the document
NotApplied(k) ==
    (generation_area_content'.kind = "sample" /\ generation_area_content'.task = k) =>
        generation_area_content' = generation_area_content

\* C15, as claimed: whenever the backend of a task has raised, whatever the
\* exception's type, the exception did not leave the worker function and an
\* error signal of the task is queued for the UI thread or was handled by it
BackendExceptionsCaught ==
    \A k \in TaskIds :
        tasks[k].raised # "none" => (tasks[k].worker # "escaped" /\ error_delivered(k))

\* C16, as claimed: once a task whose backend raised is over, its error was
\* shown, its handlers are disconnected and the loading state is cleared;
\* and from the moment its error was shown no step loads an image of the
\* task into the selector, reopens the selector or changes the document
FailedTaskTornDown ==
    [][\A k \in TaskIds :
          /\ (tasks[k].raised # "none" /\ over(k) /\ k = Len(tasks)) =>
                 /\ error_shown(k)
                 /\ ~tasks[k].connected
                 /\ app_state # "loading"
          /\ (error_shown(k) /\ k = Len(tasks') ) =>
                 /\ NoNewOption(k)
                 /\ ~image_selector_visible'
                 /\ generation_area_content' = generation_area_content]_vars

\* C17, as claimed: from the moment the user has cancelled a running task,
\* the task's backend passes back no further image, no step loads an image of
\* the task into the selector or applies one to the document, and once the
\* task is over none of its handlers is connected
CancelledTaskDiscarded ==
    [][\A k \in cancel_generation :
          /\ ~generate_caches_step(k)
          /\ NoNewOption(k)
          /\ NotApplied(k)
          /\ over(k) => ~tasks[k].connected]_vars

\* C18, as claimed: at most one task is running at any time, and a step that
\* starts a task is taken only when no earlier task is running, so that it
\* clears no cached image of a running task
OneTaskAtATime ==
    [][/\ Cardinality({k \in TaskIds : running(k)}) <= 1
       /\ Len(tasks') > Len(tasks) => \A k \in TaskIds : ~running(k)]_vars

\* C19, as claimed: a step of a worker thread leaves the generator's list of
\* cached images, the selector, the window's state and the document as they
\* are; results reach them only in steps of the UI thread
WorkerSharesNothing ==
    [][\A k \in TaskIds :
          tasks'[k].worker # tasks[k].worker =>
              UNCHANGED <<generated_images, options, image_selector_visible, app_state,
                          generation_area_content, mask_image>>]_vars

----------------------------------------------------------------------------
(* Properties of the result selector *)

\* the mutating calls this step makes on the ImageStack
calls_made == SubSeq(stack_calls', Len(stack_calls) + 1, Len(stack_calls'))

IsContentCall(c) == c.call = "set_generation_area_content"

\* C21: a step that chooses option i >= 1 (Enter on the zoomed-in option, a
\* click, the menu's select entry) makes exactly one
\* set_generation_area_content call, which succeeds and leaves the option's
\* image in the layer it names, and closes the selector; a step that chooses
\* option 0, the Escape key in the view of all options and the Cancel button
\* close the selector and leave the layers, the active layer, the list of
\* calls and the pixels of the generation area as they were
ChoiceAppliesOnce ==
    [][/\ \A i \in 1..BatchSize :
             select_option_and_close(i) =>
                 /\ Len(SelectSeq(calls_made, IsContentCall)) = 1
                 /\ calls_made[Len(calls_made)].call = "set_generation_area_content"
                 /\ calls_made[Len(calls_made)].result = "ok"
                 /\ layers'[calls_made[Len(calls_made)].layer].content = options[i + 1]
                 /\ ~image_selector_visible'
       /\ (select_option_and_close(0) \/ (key_press_escape /\ ~zoomed_in) \/ cancel) =>
             /\ ~image_selector_visible'
             /\ UNCHANGED <<layers, active_layer, stack_calls, generation_area_content>>]_vars

\* C21 witness: a generated image was chosen while the active layer was
\* locked; a new layer holds it, the locked layer is as it was and the
\* selector is closed
ChoiceAppliesOnceWitness ==
    /\ ~image_selector_visible
    /\ app_state = "editing"
    /\ Len(layers) = 2
    /\ layers[1] = Layer("locked", Content(0))
    /\ layers[2].content.kind = "sample"
    /\ stack_calls = <<[call |-> "create_layer", layer |-> 2, result |-> "ok"],
                       [call |-> "set_generation_area_content", layer |-> 2, result |-> "ok"]>>

\* task k has ended for good: its thread is gone and nothing of the task
\* waits in the queue
ended(k) ==
    /\ tasks[k].worker \in {"done", "aborted"}
    /\ \A i \in DOMAIN events : events[i].task # k

AppliedToEditableLayer ==
    [][/\ \A i \in DOMAIN calls_made :
             IsContentCall(calls_made[i]) =>
                 /\ calls_made[i].result = "ok"
                 /\ \/ calls_made[i].layer > Len(layers)
                    \/ layers[calls_made[i].layer].state = "editable"
       /\ \A l \in DOMAIN layers :
             (calls_made # <<>> /\ layers[l].state # "editable") => layers'[l] = layers[l]]_vars

----------------------------------------------------------------------------
(* Properties of the tools *)

\* the hooks invoked so far alternate, _on_activate first
HooksAlternate ==
    \A i \in 1..Len(hooks) :
        hooks[i].hook = IF i % 2 = 1 THEN "_on_activate" ELSE "_on_deactivate"

\* C24: over every sequence of is_active assignments and
\* reactivate_after_delegation calls the hooks _on_activate and _on_deactivate
\* are invoked strictly alternately, _on_activate first, and a call invokes a
\* hook, exactly one, only when it changes the tool's activation: assigning
\* is_active the value it already has invokes neither hook.
ActivationHooksPaired ==
    /\ [](HooksAlternate)
    /\ [][/\ hooks' # hooks => active' # active
          /\ active' # active => Len(hooks') = Len(hooks) + 1]_vars

\* the tool was activated, deactivated and reactivated after a delegation,
\* as often as the bound on recorded hooks allows, and is active with a layer
ActivationHooksPairedWitness ==
    /\ Len(hooks) = MaxHooks
    /\ \E i \in 1..Len(hooks) : hooks[i].restoring_after_delegation
    /\ \E i \in 1..Len(hooks) : hooks[i].hook = "_on_activate" /\ ~hooks[i].restoring_after_delegation
    /\ tool_layer # 0

\* the number of end_stroke calls among the calls of the latest handler
end_stroke_calls(calls) == Cardinality({i \in 1..Len(calls) : calls[i].call = "end_stroke"})

\* what a deactivation step leaves of the strokes, the brush size, the canvas
\* and the viewer
StrokeAndCanvasReleased ==
    /\ ~drawing'
    /\ end_stroke_calls(canvas_calls') = (IF drawing THEN 1 ELSE 0)
    /\ cached_size' = 0
    /\ cached_size # 0 => brush_size' = cached_size
    /\ canvas_layer' = 0
    /\ tool_layer' # 0 => tool_layer' \notin hidden'

\* C25: deactivating a CanvasTool releases everything it holds, whatever input
\* state it was in: after the step no stroke is in progress (an open stroke
\* was ended exactly once), a brush size cached for a right-button stroke is
\* restored, the cached tablet data is cleared, the canvas is connected to no
\* layer and the viewer renders the tool's layer.
DeactivationReleasesCanvasTool ==
    [][(active /\ ~active') => (StrokeAndCanvasReleased /\ tablet' = NoTablet)]_vars

\* C28: while a CanvasTool is active its canvas is connected to the tool's
\* layer only if that layer is neither locked nor parent-locked: with such a
\* layer assigned the canvas is connected to no layer and the control panel
\* is disabled, and no stroke of the latest pointer handler went to a locked
\* or parent-locked layer.
CanvasOffLockedLayers ==
    /\ (active /\ canvas_layer # 0) =>
           (canvas_layer = tool_layer /\ ~is_locked_or_parent_locked(canvas_layer))
    /\ (active /\ tool_layer # 0 /\ is_locked_or_parent_locked(tool_layer)) =>
           (canvas_layer = 0 /\ ~control_panel_enabled)
    /\ \A i \in 1..Len(canvas_calls) :
           (canvas_calls[i].call = "stroke_to" /\ canvas_calls[i].layer # 0) =>
               ~is_locked_or_parent_locked(canvas_calls[i].layer)

\* what a deactivation step leaves of the attached layer, the signal
\* connections, the placement outline and the drag
TextLayerReleased ==
    /\ text_layer' = 0
    /\ text_signals' = NoSignals
    /\ ~placement_outline'.visible
    /\ ~dragging'

\* C26: deactivating the TextTool releases everything it holds, whatever layer
\* it was attached to: after the step no text layer is attached, the layer,
\* control-panel and placement-outline signals are disconnected, the placement
\* outline is hidden, no drag is in progress, the disabled cursor is not shown
\* and the control panel is enabled.
DeactivationReleasesTextTool ==
    [][(active /\ ~active') =>
          (TextLayerReleased /\ cursor' # "forbidden" /\ control_panel_enabled')]_vars

\* the calls of one step that changed the Image Stack are the creation and
\* the placement of one new layer, which is active, and the step put exactly
\* one entry on the undo list: the group of the creation, holding the undo
\* functions of exactly these calls, the latest first
OneGroupedTransaction ==
    LET l == Len(layers) + 1
        top == undo_stack'[Len(undo_stack')]
    IN  /\ Len(calls_made) = 2
        /\ calls_made[1].call = "create_text_layer" /\ calls_made[1].layer = l
        /\ calls_made[2].call = "transform" /\ calls_made[2].layer = l
        /\ Len(layers') = l /\ layers'[l].state = "text" /\ active_layer' = l
        /\ undo_stack' = Append(undo_stack, top)
        /\ top.group /\ top.type[1] = TextGroupTag
        /\ top.undo_actions = <<calls_made[2].commit, calls_made[1].commit>>
        /\ open_group' = <<>>

\* an undo() that popped an entry reversed every call of the entry: a created
\* layer is out of the document and the layer active before it is active,
\* and the placement of that layer is in the same entry
EntryReversed ==
    LET popped == undo_stack[Len(undo_stack)]
        ids == Range(popped.undo_actions)
    IN  \A i \in 1..Len(stack_calls) :
            stack_calls[i].commit \in ids =>
                /\ layers'[stack_calls[i].layer].state = "removed"
                /\ stack_calls[i].call = "create_text_layer" =>
                       active_layer' = stack_calls[i].previous_active
                /\ \A j \in 1..Len(stack_calls) :
                       stack_calls[j].layer = stack_calls[i].layer =>
                           stack_calls[j].commit \in ids

\* C27: creating a text layer by dragging with the TextTool changes the Image
\* Stack only inside one grouped transaction: the creation, the placement and
\* the activation of the layer are one new entry of the undo list, a single
\* undo() of that entry reverses all of them, and the release of a drag whose
\* bounds are at most 4 pixels wide and at most 4 pixels high creates no layer
\* and records nothing.
TextLayerCreationGrouped ==
    [][/\ stack_calls' # stack_calls => OneGroupedTransaction
       /\ Len(undo_stack') < Len(undo_stack) => EntryReversed
       /\ \A width \in DragSizes, height \in DragSizes :
              (width <= 4 /\ height <= 4 /\ text_mouse_release(width, height)) =>
                  UNCHANGED <<layers, active_layer, stack_calls, undo_stack, redo_stack,
                              open_group, next_id>>]_vars

\* a second text layer was created by a drag while the first one's entry was
\* on the undo list, and the entry of the second was undone
TextLayerCreationGroupedWitness ==
    /\ Len(stack_calls) = 4
    /\ Len(undo_stack) = 1 /\ Len(redo_stack) = 1
    /\ layers[Len(layers)].state = "removed"
    /\ active_layer = stack_calls[3].previous_active

----------------------------------------------------------------------------
(* Properties of the generation area *)

\* the generation area lies within [0,0]-document size
Contained ==
    /\ generation_area.x >= 0 /\ generation_area.y >= 0
    /\ generation_area.width >= 1 /\ generation_area.height >= 1
    /\ generation_area.x + generation_area.width <= document_size.width
    /\ generation_area.y + generation_area.height <= document_size.height

----------------------------------------------------------------------------
(* Properties of the Config *)

\* for each key and object the Config holds the callback of the object's latest
\* connect() and no other, and none after a disconnect
OneCallbackEach ==
    \A key \in Keys, object \in Objects :
        LET held == {i \in DOMAIN config_connected[key] :
                         config_connected[key][i].object = object}
        IN  IF latest_connected[key][object] = NotConnected
            THEN held = {}
            ELSE /\ Cardinality(held) = 1
                 /\ \A i \in held : config_connected[key][i].callback =
                                        latest_connected[key][object]

\* a set() call invokes for an object only the callback the object had
\* connected latest when set() was called
InvokedIsLatest ==
    \A n \in DOMAIN set_calls :
        set_calls[n].invoking # <<>> =>
            set_calls[n].latest[set_calls[n].invoking[1].object] =
                set_calls[n].invoking[1].callback

\* C30: for each key and object the Config holds at most one callback, the one
\* of the object's latest connect(); a set() call invokes for an object only
\* the callback it had connected latest when set() was called, and none for an
\* object that was disconnected then
OneCallbackPerConnection == OneCallbackEach /\ InvokedIsLatest

\* a set() call made when the panel's latest connect() to the key had handed
\* on_change_again and the viewer was not connected to it is invoking
\* on_change_again and has no other callback to invoke
OneCallbackPerConnectionWitness ==
    /\ set_calls # <<>>
    /\ innermost.invoking = <<Item("panel", "on_change_again")>>
    /\ innermost.latest["panel"] = "on_change_again"
    /\ innermost.latest["viewer"] = NotConnected
    /\ innermost.callbacks = <<>>

\* this step ends the innermost set() call
set_ends == set_calls # <<>> /\ Len(set_calls') < Len(set_calls)

\* the items of the callbacks that were connected when a set() call began
connected_then(made) ==
    {Item(object, made.latest[object]) : object \in {o \in Objects : made.latest[o] # NotConnected}}

\* a set() call has invoked every callback that was connected when it began
\* once, and no other
invoked_once(made) ==
    /\ {made.invoked[i] : i \in DOMAIN made.invoked} = connected_then(made)
    /\ Len(made.invoked) = Cardinality(connected_then(made))

callback_step == set_calls # <<>> /\ innermost.invoking = <<>> /\ set_calls' # set_calls

\* this step ends the outermost set() call
outermost_ends == set_calls # <<>> /\ set_calls' = <<>>

\* _cache_generated_image returns: the insert of line 220 was the last change
\* it makes to the list
image_delivered(k) ==
    /\ k \in TaskIds /\ tasks[k].worker = "cache_insert"
    /\ tasks'[k].worker = "generate"

\* a single-shot timer fires and _load_generated_image_for_selection runs
image_loaded == timers # <<>> /\ timers' = Tail(timers)

\* the calls this step makes on the canvas: a step that changes the
\* document's layers is no pointer or activation handler and makes none
stroke_calls == IF layers' = layers THEN canvas_calls' ELSE <<>>

\* the calls start no stroke while one is open and draw into or end an open
\* stroke only
RECURSIVE well_bracketed(_, _)
well_bracketed(open, calls) ==
    \/ calls = <<>>
    \/ /\ Head(calls).call = "start_stroke" => ~open
       /\ Head(calls).call \in {"stroke_to", "end_stroke"} => open
       /\ well_bracketed(open_after(open, <<Head(calls)>>), Tail(calls))

\* C38: over every sequence of mouse click, move, release and deactivate
\* events the calls on the canvas are well bracketed: stroke_to is called only
\* between a start_stroke and its end_stroke, start_stroke never while a
\* stroke is open and end_stroke never without one
StrokesWellBracketed == [][well_bracketed(stroke_open, stroke_calls)]_vars

\* C39: the tool's lock slot is connected exactly once to the lock_changed
\* signal of the tool's current layer and to that of no other layer
LockSlotConnectedOnce ==
    \A l \in 1..MaxLayers : lock_connections[l] = (IF l = tool_layer THEN 1 ELSE 0)

\* C33: results arrive in any order.  When _cache_generated_image returns the
\* image is at its index in the cache; the load of an index finds that index
\* in the cache (the assertion of line 210 holds) and makes an image with
\* that index option index + 1 of the selector; and every option that shows a
\* generated image shows the one whose index is the option's number minus one
ArrivalsInAnyOrder ==
    /\ [][\A k \in TaskIds : image_delivered(k) =>
              /\ Len(generated_images') > tasks[k].index
              /\ generated_images'[tasks[k].index + 1] = Sample(k, tasks[k].index)]_vars
    /\ [][image_loaded =>
              /\ Len(generated_images) > Head(timers)
              /\ options'[Head(timers) + 2].kind = "sample"
              /\ options'[Head(timers) + 2].index = Head(timers)]_vars
    /\ [](\A option \in 2..Len(options) :
              options[option].kind = "sample" => options[option].index = option - 2)

\* C34: while a generation task is running (the application state is LOADING)
\* no input to the selector applies an option to the document: no step taken
\* in the loading state writes into a layer or creates one
NothingAppliedWhileLoading ==
    [][app_state = "loading" => stack_calls' = stack_calls /\ layers' = layers]_vars

\* C35: no call on the undo stack blocks forever: a call made while the
\* calling thread holds the lock raises or returns, it never waits for the
\* lock its own thread holds
NestedCallsTerminate == \A t \in Threads : pc[t] # "deadlocked"

----------------------------------------------------------------------------
(* Properties of merging by time *)

\* the top entry of the undo list
top_entry(stack) == stack[Len(stack)]

\* a commit is recorded with no group open, within the merge interval of the
\* top entry of the undo list
commit_within_interval ==
    /\ next_id' = next_id + 1 /\ open_group = <<>>
    /\ undo_stack # <<>>
    /\ now' - top_entry(undo_stack).timestamp < MergeInterval

\* C32: with no group open, a commit within the merge interval of the top
\* entry of the undo list is merged into that entry, whatever the type tags
\* and whatever the top entry is: the list keeps its length and the entries
\* below, the top entry becomes (or stays) a group that holds what it held and
\* the new commit, and its timestamp is the time of this addition
MergedWithinInterval ==
    [][commit_within_interval =>
          LET prev_action == top_entry(undo_stack)
              merged == top_entry(undo_stack')
          IN /\ Len(undo_stack') = Len(undo_stack)
             /\ SubSeq(undo_stack', 1, Len(undo_stack) - 1) =
                    SubSeq(undo_stack, 1, Len(undo_stack) - 1)
             /\ merged.group
             /\ merged.undo_actions = <<next_id>> \o prev_action.undo_actions
             /\ merged.redo_actions = Append(prev_action.redo_actions, next_id)
             /\ merged.timestamp = now']_vars

\* a closed combining_actions group that was opened before the clock advanced
\* has taken a commit with the second tag after it, and a commit made after
\* that: one entry of three commits
MergedWithinIntervalWitness ==
    /\ Len(undo_stack) = 1 /\ open_group = <<>> /\ now = MaxTime
    /\ top_entry(undo_stack).type = <<"g", "a", "b">>
    /\ top_entry(undo_stack).undo_actions = <<3, 2, 1>>
    /\ top_entry(undo_stack).timestamp = now

\* a thread waits for the Config's lock while it holds that lock itself
blocks_itself(thread) == waits(thread) /\ config_lock = thread

\* C36: a set() call that writes the JSON file directly returns with the lock
\* released: no thread waits for the Config's lock while holding it
DirectWriteReturns == \A thread \in Threads : ~blocks_itself(thread)

SignalsOf(l) ==
    IF l = 0 THEN NoSignals
    ELSE [lock_changed |-> <<l>>, transform_changed |-> <<l>>, size_changed |-> <<l>>,
          text_rect_changed |-> 1, offset_changed |-> 1, placement_changed |-> 1,
          failed |-> FALSE]

====
